---- MODULE Spec2Model ----
(***************************************************************************)
(* A model of the m3u8 segment downloaders of utility_scripts:            *)
(*   script/download_mp4_from_jpegts_based_m3u8.py  (parser, fetcher,      *)
(*       JPEG validator, JPEG and MPEG-TS assembly ladders, main)          *)
(*   script/dowlnload_mp4_from_jpeg_based_m3u8.py                          *)
(*   script/dowlnload_jpeg_contains_m3u8.py                                *)
(* Text is modelled as sequences of one-character strings, files by the   *)
(* attributes the code reads (existence, size, first and last bytes), and *)
(* the external tools (HTTP, ffmpeg) by nondeterministic outcomes.        *)
(***************************************************************************)
EXTENDS Integers, Sequences, FiniteSets, TLC

VARIABLES
    \* download_segments_from_m3u8: inputs
    m3u8_exists, lines, base_url,
    \* download_segments_from_m3u8: locals and effects
    pc, li, segment_urls, warnings, i, download_errors, skipped_files,
    downloaded, requests, status, disk, outdir, ret, runs,
    \* the slots as they were when the current run started
    disk0,
    \* the assembly engines: inputs
    kind, ffmpeg_ok, nseg,
    \* the assembly engines: position, files and what was observed
    a_pc, out, tmp, probe, invoked, calls, last, a_ret,
    \* the slot names: an earlier index and the index of the loop of line 52
    n_kind, n_lo, n_hi,
    \* validate_and_fix_jpegs: the directory, before and now, and the locals
    vfiles0, vfiles, v_pc, jpeg_files, v_i, valid_count, removed_count, v_log,
    \* main: whether the manifest can be opened, --no-combine-video, the
    \* position and the exit status of the process (-1: still running)
    m3u8_readable, no_combine, m_pc, exit_code

dlVars == <<m3u8_exists, lines, base_url, pc, li, segment_urls, warnings, i,
            download_errors, skipped_files, downloaded, requests, status,
            disk, outdir, ret, runs, disk0>>

asmVars == <<kind, ffmpeg_ok, nseg, a_pc, out, tmp, probe, invoked, calls,
             last, a_ret>>

nameVars == <<n_kind, n_lo, n_hi>>

valVars == <<vfiles0, vfiles, v_pc, jpeg_files, v_i, valid_count,
             removed_count, v_log>>

mainVars == <<m3u8_readable, no_combine, m_pc, exit_code>>

vars == <<dlVars, asmVars, nameVars, valVars, mainVars>>

\* What the download function leaves alone
notDl == <<asmVars, nameVars, valVars, mainVars>>

\* What the assembly engines leave alone
notAsm == <<dlVars, nameVars, valVars, mainVars>>

\* What the naming of the slots leaves alone
notName == <<dlVars, asmVars, valVars, mainVars>>

\* What the validator leaves alone
notVal == <<dlVars, asmVars, nameVars, mainVars>>

NoOutcome == [k |-> 0, o |-> [kind |-> "none", rc |-> 0, wrote |-> "none"],
              out |-> "absent"]

\* The assembly engines before any run
AsmIdle ==
    /\ kind = "ts"
    /\ ffmpeg_ok = TRUE
    /\ nseg = 0
    /\ a_pc = "idle"
    /\ out = "absent"
    /\ tmp = {}
    /\ probe = "absent"
    /\ invoked = <<>>
    /\ calls = <<>>
    /\ last = NoOutcome
    /\ a_ret = "none"

\* The download function or an engine called on its own, not by main
MainIdle ==
    /\ m3u8_readable = TRUE
    /\ no_combine = FALSE
    /\ m_pc = "idle"
    /\ exit_code = -1

\* The slot names before any is assigned
NameIdle ==
    /\ n_kind = "ts"
    /\ n_lo = 0
    /\ n_hi = 0

(***************************************************************************)
(* Bounds of the model                                                     *)
(***************************************************************************)
MaxFiles == 2       \* JPEG slots of the validator's directory
MaxLines == 4       \* longest manifest of the parser specification
MaxSegs == 3        \* longest manifest of the fetcher specification
MaxRuns == 2        \* fetcher runs over the same directory

(***************************************************************************)
(* Text: str.strip, str.startswith, str.rstrip("/"), str.lstrip("/")       *)
(***************************************************************************)
Whitespace == {" ", "\t", "\n", "\r", "\f"}

RECURSIVE LStripSet(_, _)
LStripSet(s, cs) ==
    IF s # <<>> /\ Head(s) \in cs THEN LStripSet(Tail(s), cs) ELSE s

RECURSIVE RStripSet(_, _)
RStripSet(s, cs) ==
    IF s # <<>> /\ s[Len(s)] \in cs
    THEN RStripSet(SubSeq(s, 1, Len(s) - 1), cs) ELSE s

Strip(s) == RStripSet(LStripSet(s, Whitespace), Whitespace)

StartsWith(s, p) == Len(s) >= Len(p) /\ SubSeq(s, 1, Len(p)) = p

EndsWith(s, p) ==
    Len(s) >= Len(p) /\ SubSeq(s, Len(s) - Len(p) + 1, Len(s)) = p

P_http == <<"h","t","t","p",":","/","/">>
P_https == <<"h","t","t","p","s",":","/","/">>

(***************************************************************************)
(* The names of the slots: f"segment{i:04d}.ts" (line 53) and              *)
(* f"video{i:04d}.jpeg" (dowlnload_mp4_from_jpeg_based_m3u8.py, line 43), *)
(* and sorted() over them (lines 109, 282, 732)                            *)
(***************************************************************************)
DigitChars == <<"0", "1", "2", "3", "4", "5", "6", "7", "8", "9">>

RECURSIVE Decimal(_)
Decimal(n) ==
    IF n < 10 THEN <<DigitChars[n + 1]>>
    ELSE Decimal(n \div 10) \o <<DigitChars[(n % 10) + 1]>>

RECURSIVE ZeroPad(_, _)
ZeroPad(s, width) == IF Len(s) >= width THEN s ELSE ZeroPad(<<"0">> \o s, width)

\* The width of the format specification ":04d"
PadWidth == 4

\* format(i, "04d"): at least four digits, more when the number needs them
Format04d(n) == ZeroPad(Decimal(n), PadWidth)

SegmentName(n) ==
    <<"s","e","g","m","e","n","t">> \o Format04d(n) \o <<".","t","s">>

VideoName(n) ==
    <<"v","i","d","e","o">> \o Format04d(n) \o <<".","j","p","e","g">>

SlotName(k, n) == IF k = "ts" THEN SegmentName(n) ELSE VideoName(n)

\* ord(c), for the characters of the names
Ord(c) ==
    CASE c = "." -> 46
      [] c = "0" -> 48
      [] c = "1" -> 49
      [] c = "2" -> 50
      [] c = "3" -> 51
      [] c = "4" -> 52
      [] c = "5" -> 53
      [] c = "6" -> 54
      [] c = "7" -> 55
      [] c = "8" -> 56
      [] c = "9" -> 57
      [] c = "d" -> 100
      [] c = "e" -> 101
      [] c = "g" -> 103
      [] c = "i" -> 105
      [] c = "j" -> 106
      [] c = "m" -> 109
      [] c = "n" -> 110
      [] c = "o" -> 111
      [] c = "p" -> 112
      [] c = "s" -> 115
      [] c = "t" -> 116
      [] c = "v" -> 118

\* a < b for str: the comparison sorted() uses
RECURSIVE StrLess(_, _)
StrLess(a, b) ==
    IF b = <<>> THEN FALSE
    ELSE IF a = <<>> THEN TRUE
    ELSE IF Head(a) = Head(b) THEN StrLess(Tail(a), Tail(b))
    ELSE Ord(Head(a)) < Ord(Head(b))

\* sorted(names)
RECURSIVE Sorted(_)
Sorted(S) ==
    IF S = {} THEN <<>>
    ELSE LET m == CHOOSE x \in S : \A y \in S \ {x} : StrLess(x, y)
         IN <<m>> \o Sorted(S \ {m})

(***************************************************************************)
(* The directory validate_and_fix_jpegs works on: a file is what the code *)
(* reads of it, its size (line 126), whether its first bytes are FF D8 FF *)
(* (line 138) and whether its last two are FF D9 (line 149).               *)
(***************************************************************************)
Absent == [present |-> FALSE, size |-> 0, head |-> FALSE, tail |-> FALSE]

File(s, h, t) == [present |-> TRUE, size |-> s, head |-> h, tail |-> t]

\* The names a directory can hold: the JPEG slots, and a transport-stream
\* slot as download_segments_from_m3u8 writes it
DirNames == {VideoName(k) : k \in 0..(MaxFiles - 1)} \cup {SegmentName(0)}

EmptyDir == [n \in DirNames |-> Absent]

\* The validator before any run, over an empty directory
ValIdle ==
    /\ vfiles0 = EmptyDir
    /\ vfiles = EmptyDir
    /\ v_pc = "idle"
    /\ jpeg_files = <<>>
    /\ v_i = 0
    /\ valid_count = 0
    /\ removed_count = 0
    /\ v_log = <<>>

(***************************************************************************)
(* The manifest parser, lines 33-46 of download_segments_from_m3u8         *)
(***************************************************************************)
\* base_url is None (<<>>) or a string (<<s>>)
NoBase == <<>>
Some(s) == <<s>>

\* A parser that forgets the comment test of line 37
IsIgnoredBlankOnly(line) == line = <<>>

\* line 37: "if not line or line.startswith('#')"
IsIgnored(line) == line = <<>> \/ StartsWith(line, <<"#">>)

\* line 40
IsAbsolute(line) == StartsWith(line, P_http) \/ StartsWith(line, P_https)

\* line 42: "elif base_url": None and "" are both falsy
HasBase(base) == base # NoBase /\ base[1] # <<>>

\* A join that keeps the slashes the base ends with
JoinBaseKeepSlashes(base, line) ==
    base[1] \o <<"/">> \o LStripSet(line, {"/"})

\* line 44
JoinBase(base, line) ==
    RStripSet(base[1], {"/"}) \o <<"/">> \o LStripSet(line, {"/"})

\* A parser that raises on a relative line without a base
ParseOneRaising(urls, warns, raw, base) ==
    LET line == Strip(raw) IN
    IF IsIgnored(line) THEN [urls |-> urls, warns |-> warns, raised |-> FALSE]
    ELSE IF IsAbsolute(line)
         THEN [urls |-> Append(urls, line), warns |-> warns, raised |-> FALSE]
    ELSE IF HasBase(base)
         THEN [urls |-> Append(urls, JoinBase(base, line)), warns |-> warns,
               raised |-> FALSE]
    ELSE [urls |-> urls, warns |-> warns, raised |-> TRUE]

\* One iteration of the loop of lines 34-46 over the raw line `raw`: the
\* entries and the warnings (line 46) after it, and whether it raised (no
\* branch of the loop does).
ParseOne(urls, warns, raw, base) ==
    LET line == Strip(raw) IN
    IF IsIgnored(line) THEN [urls |-> urls, warns |-> warns, raised |-> FALSE]
    ELSE IF IsAbsolute(line)
         THEN [urls |-> Append(urls, line), warns |-> warns, raised |-> FALSE]
    ELSE IF HasBase(base)
         THEN [urls |-> Append(urls, JoinBase(base, line)), warns |-> warns,
               raised |-> FALSE]
    ELSE [urls |-> urls, warns |-> Append(warns, line), raised |-> FALSE]

(***************************************************************************)
(* Manifest lines and base URLs the specifications draw from               *)
(***************************************************************************)
L_blank == <<"\n">>
L_comment == <<"#"," ","c","o","m","m","e","n","t","\n">>
L_rel == <<"s","e","g","0",".","j","p","e","g","\n">>
L_abs == <<"h","t","t","p","s",":","/","/","c","d","n",".","e","x","a","m","p","l","e","/","s","e","g","1",".","j","p","e","g","\n">>
L_relslash == <<" ","/","/","s","2",".","t","s"," ","\n">>
L_http == <<"h","t","t","p",":","/","/","h","/","3","\n">>
L_wscomment == <<"\t","#","E","X","T","-","X","-","K","E","Y","\n">>
B_empty == <<>>
B_clips == <<"h","t","t","p","s",":","/","/","c","d","n",".","e","x","a","m","p","l","e","/","c","l","i","p","s">>
B_slashes == <<"h","t","t","p","s",":","/","/","c","d","n",".","e","x","a","m","p","l","e","/","c","l","i","p","s","/","/">>

ParseLines == {L_blank, L_comment, L_rel, L_abs, L_relslash, L_http, L_wscomment}
ParseBases == {NoBase, Some(B_empty), Some(B_clips), Some(B_slashes)}
FetchLines == {L_comment, L_rel, L_abs}
FetchBases == {NoBase, Some(B_clips)}

SeqsUpTo(S, n) == UNION {[1..k -> S] : k \in 0..n}

(***************************************************************************)
(* download_segments_from_m3u8                                             *)
(***************************************************************************)
Slots == 0..(MaxSegs - 1)

DlInit(Lines, Bases, n) ==
    /\ m3u8_exists \in BOOLEAN
    /\ lines \in SeqsUpTo(Lines, n)
    /\ base_url \in Bases
    /\ pc = "start"
    /\ li = 0
    /\ segment_urls = <<>>
    /\ warnings = <<>>
    /\ i = 0
    /\ download_errors = 0
    /\ skipped_files = 0
    /\ downloaded = 0
    /\ requests = <<>>
    /\ status = <<>>
    /\ disk = [s \in Slots |-> "absent"]
    /\ disk0 = disk
    /\ outdir = FALSE
    /\ ret = "none"
    /\ runs = 1

\* A function that creates the output directory before it looks for the
\* manifest
StartMissingAfterMakedirs ==
    /\ UNCHANGED notDl
    /\ pc = "start"
    /\ ~m3u8_exists
    /\ pc' = "done"
    /\ ret' = "False"
    /\ outdir' = TRUE
    /\ UNCHANGED <<m3u8_exists, lines, base_url, li, segment_urls, warnings, i,
                   download_errors, skipped_files, downloaded, requests,
                   status, disk, runs, disk0>>

\* lines 24-26: the manifest is missing
StartMissing ==
    /\ UNCHANGED notDl
    /\ pc = "start"
    /\ ~m3u8_exists
    /\ pc' = "done"
    /\ ret' = "False"
    /\ UNCHANGED <<m3u8_exists, lines, base_url, li, segment_urls, warnings, i,
                   download_errors, skipped_files, downloaded, requests,
                   status, disk, outdir, runs, disk0>>

\* lines 28-33: makedirs, readlines, segment_urls = []
StartRead ==
    /\ UNCHANGED notDl
    /\ pc = "start"
    /\ m3u8_exists
    /\ m3u8_readable
    /\ outdir' = TRUE
    /\ pc' = "parse"
    /\ li' = 0
    /\ segment_urls' = <<>>
    /\ warnings' = <<>>
    /\ UNCHANGED <<m3u8_exists, lines, base_url, i, download_errors,
                   skipped_files, downloaded, requests, status, disk, ret,
                   runs, disk0>>

\* lines 34-46: one line of the manifest
ParseLine ==
    /\ UNCHANGED notDl
    /\ pc = "parse"
    /\ li < Len(lines)
    /\ LET r == ParseOne(segment_urls, warnings, lines[li + 1], base_url) IN
         IF r.raised
         THEN /\ pc' = "raised"
              /\ UNCHANGED <<li, segment_urls, warnings>>
         ELSE /\ segment_urls' = r.urls
              /\ warnings' = r.warns
              /\ li' = li + 1
              /\ pc' = pc
    /\ UNCHANGED <<m3u8_exists, lines, base_url, i, download_errors,
                   skipped_files, downloaded, requests, status, disk, outdir,
                   ret, runs, disk0>>

\* lines 48-51: the manifest is exhausted, the fetch loop starts
ParseDone ==
    /\ UNCHANGED notDl
    /\ pc = "parse"
    /\ li = Len(lines)
    /\ pc' = "fetch"
    /\ i' = 0
    /\ download_errors' = 0
    /\ skipped_files' = 0
    /\ UNCHANGED <<m3u8_exists, lines, base_url, li, segment_urls, warnings,
                   downloaded, requests, status, disk, outdir, ret, runs,
                   disk0>>

NextParse == StartMissing \/ StartRead \/ ParseLine \/ ParseDone

InitParse ==
    DlInit(ParseLines, ParseBases, MaxLines) /\ AsmIdle /\ NameIdle /\ ValIdle
    /\ MainIdle

SpecParse == InitParse /\ [][NextParse]_vars

(***************************************************************************)
(* The fetch loop, lines 50-95 of download_segments_from_m3u8              *)
(***************************************************************************)
fetchFrame == <<m3u8_exists, lines, base_url, li, segment_urls, warnings,
                outdir, runs, disk0>>

\* A test that takes a slot holding a part of a body for a missing one
SlotExistsComplete(d, s) == d[s] = "complete"

\* line 56: os.path.exists(filename)
SlotExists(d, s) == d[s] # "absent"

\* lines 56-59: the slot exists, no request is made
FetchSkip ==
    /\ UNCHANGED notDl
    /\ pc = "fetch"
    /\ i < Len(segment_urls)
    /\ SlotExists(disk, i)
    /\ skipped_files' = skipped_files + 1
    /\ status' = Append(status, "Skipped")
    /\ i' = i + 1
    /\ UNCHANGED <<pc, download_errors, downloaded, requests, disk, ret>>
    /\ UNCHANGED fetchFrame

\* The GET of line 71, recorded with the index it is made for
Get(reqs, idx, url) == Append(reqs, [idx |-> idx, url |-> url])

\* An error counted twice
CountErrorTwice(n) == n + 2

\* The count after an except clause of lines 78-85 has run
CountError(n) == n + 1

\* A loop that an error ends
AfterErrorAbort(idx) == MaxSegs

\* The index the loop of line 52 goes to after index `idx` failed
AfterError(idx) == idx + 1

\* lines 61-77: the GET succeeds and the whole body is written
FetchOk ==
    /\ UNCHANGED notDl
    /\ pc = "fetch"
    /\ i < Len(segment_urls)
    /\ ~SlotExists(disk, i)
    /\ requests' = Get(requests, i, segment_urls[i + 1])
    /\ disk' = [disk EXCEPT ![i] = "complete"]
    /\ downloaded' = downloaded + 1
    /\ status' = Append(status, "Downloaded")
    /\ i' = i + 1
    /\ UNCHANGED <<pc, download_errors, skipped_files, ret>>
    /\ UNCHANGED fetchFrame

\* lines 71-72, 78-81: requests.get or raise_for_status raises a
\* RequestException (connection error, timeout, bad status); no file is opened
FetchRequestError ==
    /\ UNCHANGED notDl
    /\ pc = "fetch"
    /\ i < Len(segment_urls)
    /\ ~SlotExists(disk, i)
    /\ requests' = Get(requests, i, segment_urls[i + 1])
    /\ download_errors' = CountError(download_errors)
    /\ status' = Append(status, "Failed")
    /\ i' = AfterError(i)
    /\ UNCHANGED <<pc, skipped_files, downloaded, disk, ret>>
    /\ UNCHANGED fetchFrame

\* lines 74, 82-85: open(filename, "wb") raises (any other exception) after
\* the response arrived; no file is created
FetchOpenError ==
    /\ UNCHANGED notDl
    /\ pc = "fetch"
    /\ i < Len(segment_urls)
    /\ ~SlotExists(disk, i)
    /\ requests' = Get(requests, i, segment_urls[i + 1])
    /\ download_errors' = CountError(download_errors)
    /\ status' = Append(status, "Failed")
    /\ i' = AfterError(i)
    /\ UNCHANGED <<pc, skipped_files, downloaded, disk, ret>>
    /\ UNCHANGED fetchFrame

\* lines 74-76, 78-85: iter_content or write raises while the body is being
\* streamed; the file was created by open and holds a part of the body
FetchStreamError ==
    /\ UNCHANGED notDl
    /\ pc = "fetch"
    /\ i < Len(segment_urls)
    /\ ~SlotExists(disk, i)
    /\ requests' = Get(requests, i, segment_urls[i + 1])
    /\ disk' = [disk EXCEPT ![i] = "partial"]
    /\ download_errors' = CountError(download_errors)
    /\ status' = Append(status, "Failed")
    /\ i' = AfterError(i)
    /\ UNCHANGED <<pc, skipped_files, downloaded, ret>>
    /\ UNCHANGED fetchFrame

\* A function that reports failure when a download failed
ReturnValueStrict(errors) == IF errors > 0 THEN "False" ELSE "True"

\* line 95: the value returned after the loop, whatever the error count of
\* lines 87-90
ReturnValue(errors) == "True"

\* lines 87-95: the loop is over, the function returns True
FetchDone ==
    /\ UNCHANGED notDl
    /\ pc = "fetch"
    /\ i >= Len(segment_urls)
    /\ pc' = "done"
    /\ ret' = ReturnValue(download_errors)
    /\ UNCHANGED <<i, download_errors, skipped_files, downloaded, requests,
                   status, disk>>
    /\ UNCHANGED fetchFrame

\* The script is run again with the same manifest over the same directory
Rerun ==
    /\ UNCHANGED notDl
    /\ pc = "done"
    /\ runs < MaxRuns
    /\ runs' = runs + 1
    /\ pc' = "start"
    /\ li' = 0
    /\ segment_urls' = <<>>
    /\ warnings' = <<>>
    /\ i' = 0
    /\ download_errors' = 0
    /\ skipped_files' = 0
    /\ downloaded' = 0
    /\ requests' = <<>>
    /\ status' = <<>>
    /\ ret' = "none"
    /\ disk0' = disk
    /\ UNCHANGED <<m3u8_exists, lines, base_url, disk, outdir>>

Next ==
    \/ StartMissing \/ StartRead \/ ParseLine \/ ParseDone
    \/ FetchSkip \/ FetchOk \/ FetchRequestError \/ FetchOpenError
    \/ FetchStreamError \/ FetchDone \/ Rerun

Init ==
    DlInit(FetchLines, FetchBases, MaxSegs) /\ AsmIdle /\ NameIdle /\ ValIdle
    /\ MainIdle

Spec == Init /\ [][Next]_vars

(***************************************************************************)
(* Properties of the parser (SpecParse)                                    *)
(***************************************************************************)
\* The reference lines of a manifest, trimmed, in line order: the lines that
\* are neither blank nor comments
IsReference(raw) ==
    LET t == Strip(raw) IN t # <<>> /\ Head(t) # "#"

Trimmed(ls) == [k \in 1..Len(ls) |-> Strip(ls[k])]

References(ls) == Trimmed(SelectSeq(ls, IsReference))

AllSlashes(s) == \A k \in 1..Len(s) : s[k] = "/"

\* url is base and line joined by exactly one slash: the base without the
\* slashes it ends with, one slash, the line without the slashes it starts with
OneSlashJoin(base, line, url) ==
    \E m \in 0..Len(base), n \in 0..Len(line) :
        LET b == SubSeq(base, 1, m)
            l == SubSeq(line, n + 1, Len(line))
        IN /\ AllSlashes(SubSeq(base, m + 1, Len(base)))
           /\ AllSlashes(SubSeq(line, 1, n))
           /\ (b = <<>> \/ b[Len(b)] # "/")
           /\ (l = <<>> \/ l[1] # "/")
           /\ url = b \o <<"/">> \o l

\* C8: with a base URL, the parser produces exactly one entry per reference
\* line, entry k coming from the k-th reference line in line order; blank
\* and comment lines contribute nothing and consume no index.
C8_OneEntryPerReference ==
    (pc = "fetch" /\ HasBase(base_url)) =>
        LET refs == References(lines) IN
        /\ Len(segment_urls) = Len(refs)
        /\ \A k \in 1..Len(refs) :
              IF IsAbsolute(refs[k])
              THEN segment_urls[k] = refs[k]
              ELSE EndsWith(segment_urls[k], LStripSet(refs[k], {"/"}))

C8_Witness ==
    /\ pc = "fetch"
    /\ HasBase(base_url)
    /\ Len(segment_urls) = 2
    /\ Len(lines) = 4
    /\ segment_urls[1] # segment_urls[2]
    /\ ~IsReference(lines[1])
    /\ ~IsReference(lines[3])

ExampleLines == <<L_rel, L_abs, L_comment, L_blank>>
U_seg0 == <<"h","t","t","p","s",":","/","/","c","d","n",".","e","x","a","m","p","l","e","/","c","l","i","p","s","/","s","e","g","0",".","j","p","e","g">>
U_seg1 == <<"h","t","t","p","s",":","/","/","c","d","n",".","e","x","a","m","p","l","e","/","s","e","g","1",".","j","p","e","g">>

\* C9: an absolute reference line is used verbatim; a relative one becomes
\* base, one slash, line, with exactly one separating slash whatever slashes
\* the base ends with and the line starts with; the manifest of the example
\* yields the two URLs of the example.
C9_AbsoluteVerbatimRelativeJoined ==
    (pc = "fetch" /\ HasBase(base_url)) =>
        LET refs == References(lines) IN
        /\ Len(segment_urls) = Len(refs)
        /\ \A k \in 1..Len(refs) :
              IF IsAbsolute(refs[k])
              THEN segment_urls[k] = refs[k]
              ELSE OneSlashJoin(base_url[1], refs[k], segment_urls[k])
        /\ (lines = ExampleLines /\ base_url = Some(B_clips))
              => segment_urls = <<U_seg0, U_seg1>>

C9_Witness ==
    /\ pc = "fetch"
    /\ base_url = Some(B_slashes)
    /\ Len(lines) = 3
    /\ lines[1] = L_relslash
    /\ lines[2] = L_abs
    /\ Len(segment_urls) = 3

\* C10: without a base, a relative reference line produces no entry and one
\* warning and nothing is raised; parsing goes on, so that at every point of
\* the loop the entries are the absolute lines read so far, in order, and
\* the warnings the relative ones.
C10_RelativeWithoutBaseDropped ==
    /\ pc # "raised"
    /\ (pc \in {"parse", "fetch"} /\ ~HasBase(base_url)) =>
          LET refs == References(SubSeq(lines, 1, li)) IN
          /\ segment_urls = SelectSeq(refs, IsAbsolute)
          /\ warnings = SelectSeq(refs, LAMBDA r : ~IsAbsolute(r))

C10_Witness ==
    /\ pc = "fetch"
    /\ base_url = NoBase
    /\ Len(lines) = 3
    /\ IsAbsolute(Strip(lines[1]))
    /\ IsReference(lines[2]) /\ ~IsAbsolute(Strip(lines[2]))
    /\ IsAbsolute(Strip(lines[3]))
    /\ Len(segment_urls) = 2
    /\ Len(warnings) = 1

(***************************************************************************)
(* Properties of the fetch loop (Spec)                                     *)
(***************************************************************************)
GetsFor(idx) == Cardinality({r \in 1..Len(requests) : requests[r].idx = idx})

Marks(what) == Cardinality({k \in 1..Len(status) : status[k] = what})

\* C3: for every reference, in order, no GET is made when its slot already
\* exists and exactly one otherwise; a run over a directory in which all N
\* slots exist makes no request and reports skipped = N and downloaded = 0.
C3_SkipExistingSlots ==
    pc \in {"fetch", "done"} =>
        /\ \A k \in 0..(i - 1) :
              GetsFor(k) = IF disk0[k] # "absent" THEN 0 ELSE 1
        /\ \A r \in 1..Len(requests) :
              /\ requests[r].idx < i
              /\ requests[r].url = segment_urls[requests[r].idx + 1]
              /\ r > 1 => requests[r - 1].idx < requests[r].idx
        /\ (/\ pc = "done"
            /\ ret = "True"
            /\ \A k \in 0..(Len(segment_urls) - 1) : disk0[k] # "absent")
              => /\ requests = <<>>
                 /\ skipped_files = Len(segment_urls)
                 /\ downloaded = 0

C3_Witness ==
    /\ pc = "done"
    /\ runs = 2
    /\ Len(segment_urls) = MaxSegs
    /\ \A k \in 0..(Len(segment_urls) - 1) : disk0[k] # "absent"
    /\ \E k \in Slots : disk0[k] = "partial"
    /\ skipped_files = MaxSegs
    /\ requests = <<>>

\* C4: an error while fetching a segment marks that segment alone as failed
\* and adds exactly one to the error counter, and the loop goes on with the
\* next segment: every processed reference has one mark, the counter equals
\* the number of failed marks, and a run ends only when all N references
\* have been processed.
C4_ErrorsDoNotAbort ==
    pc \in {"fetch", "done"} =>
        /\ Len(status) = i
        /\ i <= Len(segment_urls)
        /\ download_errors = Marks("Failed")
        /\ \A k \in 0..(i - 1) :
              status[k + 1] = "Failed" =>
                 (GetsFor(k) = 1 /\ disk[k] # "complete")
        /\ (pc = "done" /\ ret = "True") => i = Len(segment_urls)

C4_Witness ==
    /\ pc = "done"
    /\ Len(segment_urls) = 3
    /\ status = <<"Failed", "Downloaded", "Failed">>
    /\ download_errors = 2
    /\ disk[2] = "partial"

(***************************************************************************)
(* The assembly engines: combine_mpegts_segments_to_mp4 (lines 713-1114)   *)
(* and combine_jpegs_to_mp4 (lines 262-572).                               *)
(*                                                                         *)
(* A run of the external tool ends in one of four ways: it exits with a   *)
(* return code ("exit"), subprocess.run raises TimeoutExpired ("timeout"), *)
(* something raises before the strategy's temporary file exists           *)
(* ("raise_prep"), or subprocess.run raises another exception once it     *)
(* exists ("raise_run").  `wrote` is what the tool did to the file it     *)
(* writes: nothing, or a file of at most or of more than 1024 bytes.      *)
(***************************************************************************)
Sizes == {"none", "small", "big"}

Exits == [kind : {"exit"}, rc : {0, 1}, wrote : Sizes]
Timeouts == [kind : {"timeout"}, rc : {1}, wrote : Sizes]
Raises == [kind : {"raise_prep", "raise_run"}, rc : {1}, wrote : {"none"}]

\* subprocess.run(..., timeout=n) and subprocess.run(...) without a timeout
Bounded == Exits \cup Timeouts \cup Raises
Unbounded == Exits \cup Raises

\* The file the tool writes, after the run
FileAfter(f, o) == IF o.wrote = "none" THEN f ELSE o.wrote

\* A judgement that forgets the return code
StrictSuccessAnyExit(o, f) == o.kind = "exit" /\ f = "big"

\* "result.returncode == 0 and os.path.exists(output_file) and
\*  os.path.getsize(output_file) > 1024": lines 322-326, 383-387, 501-505,
\* 792-796, 830-834, 883-887, 948-952
StrictSuccess(o, f) == o.kind = "exit" /\ o.rc = 0 /\ f = "big"

\* A tolerant judgement that still wants exit code zero
TolerantSuccessStrict(o, f) == o.kind = "exit" /\ o.rc = 0 /\ f = "big"

\* "os.path.exists(output_file) and os.path.getsize(output_file) > 1024":
\* lines 554 and 1024
TolerantSuccess(o, f) == o.kind = "exit" /\ f = "big"

\* The temporary files after a strategy that writes `art`, runs the tool and
\* removes `art`: an exception raised by the run skips the removal
\* (lines 760-790, 849-881, 902-946, 980-1022, 342-381)
NoArt == "-"
Created(art) == IF art = NoArt THEN {} ELSE {art}

TmpAfter(t, art, o) ==
    CASE o.kind = "raise_prep" -> t
      [] o.kind = "exit" -> t \ Created(art)
      [] OTHER -> t \cup Created(art)

\* A ladder that goes from strategy 2 to strategy 4
FallThroughSkip(name) ==
    CASE name = "s1" -> "s2"
      [] name = "s2" -> "s4"
      [] name = "s3" -> "s4"
      [] name = "s4" -> IF kind = "ts" THEN "s5" ELSE "done"
      [] name = "s5" -> "s6"
      [] OTHER -> "done"

\* The strategy the ladder goes to when strategy `name` has failed: the
\* next block of the function body (lines 339, 400, 516, 566 and 808, 846,
\* 899, 964, 1034, 1106)
FallThrough(name) ==
    CASE name = "s1" -> "s2"
      [] name = "s2" -> "s3"
      [] name = "s3" -> "s4"
      [] name = "s4" -> IF kind = "ts" THEN "s5" ELSE "done"
      [] name = "s5" -> "s6"
      [] OTHER -> "done"

\* A judgement that takes what a timed-out run left behind for a result
JudgeTimeoutAsExit(tolerant, o, f) ==
    /\ o.kind \in {"exit", "timeout"}
    /\ f = "big"
    /\ (o.kind = "exit" /\ ~tolerant) => o.rc = 0

\* A ladder whose every strategy judges as the maximum-tolerance one does
JudgeAlwaysTolerant(tolerant, o, f) == TolerantSuccess(o, f)

\* The success test a strategy applies
Judge(tolerant, o, f) ==
    IF tolerant THEN TolerantSuccess(o, f) ELSE StrictSuccess(o, f)

Call(cs, tool, timeout) == Append(cs, [tool |-> tool, timeout |-> timeout])

asmInputs == <<kind, ffmpeg_ok, nseg>>

\* One strategy of a ladder: strategy k, at position `name`, writing the
\* temporary file `art`, running the tool `tool` under `timeout` seconds
\* (0: none) with one of `outcomes`, judged with or without the return code
Strategy(k, name, art, pre, tool, timeout, outcomes, tolerant) ==
    /\ a_pc = name
    /\ \E o \in outcomes :
         LET f == IF o.kind = "raise_prep" THEN out ELSE FileAfter(out, o)
             ok == Judge(tolerant, o, f)
             nxt == FallThrough(name)
         IN /\ out' = f
            /\ tmp' = TmpAfter(tmp, art, o)
            /\ invoked' = Append(invoked, k)
            /\ calls' = IF o.kind = "raise_prep" THEN pre
                        ELSE Call(pre, tool, timeout)
            /\ last' = [k |-> k, o |-> o, out |-> f]
            /\ a_pc' = IF ok THEN "done" ELSE nxt
            /\ a_ret' = IF ok THEN "True"
                        ELSE IF nxt = "done" THEN "False" ELSE a_ret
    /\ UNCHANGED probe
    /\ UNCHANGED asmInputs
    /\ UNCHANGED notAsm

\* lines 275-279, 643-647 and 725-729: "ffmpeg -version" fails
AsmNoFfmpeg ==
    /\ a_pc = "check"
    /\ ~ffmpeg_ok
    /\ a_pc' = "done"
    /\ a_ret' = "False"
    /\ UNCHANGED <<out, tmp, probe, invoked, calls, last>>
    /\ UNCHANGED asmInputs
    /\ UNCHANGED notAsm

\* An engine without the test of the listing: the ladder starts over nothing
AsmNoSegmentsUnchecked ==
    /\ a_pc = "check"
    /\ ffmpeg_ok
    /\ nseg = 0
    /\ a_pc' = "s1"
    /\ UNCHANGED <<out, tmp, probe, invoked, calls, last, a_ret>>
    /\ UNCHANGED asmInputs
    /\ UNCHANGED notAsm

\* lines 281-286, 649-654 and 732-736: the glob matches no segment file
AsmNoSegments ==
    /\ a_pc = "check"
    /\ ffmpeg_ok
    /\ nseg = 0
    /\ a_pc' = "done"
    /\ a_ret' = "False"
    /\ UNCHANGED <<out, tmp, probe, invoked, calls, last>>
    /\ UNCHANGED asmInputs
    /\ UNCHANGED notAsm

\* lines 288-289 and 738-755: the ladder starts
AsmBegin ==
    /\ a_pc = "check"
    /\ ffmpeg_ok
    /\ nseg > 0
    /\ a_pc' = "s1"
    /\ UNCHANGED <<out, tmp, probe, invoked, calls, last, a_ret>>
    /\ UNCHANGED asmInputs
    /\ UNCHANGED notAsm

(***************************************************************************)
(* The transport-stream ladder                                             *)
(***************************************************************************)
\* lines 757-806: concat demuxer, stream copy
Ts1 ==
    /\ kind = "ts"
    /\ Strategy(1, "s1", "segment_list.txt", calls, "ffmpeg_concat", 1800,
                Bounded, FALSE)

\* lines 808-844: concat protocol, stream copy
Ts2 ==
    /\ kind = "ts"
    /\ Strategy(2, "s2", NoArt, calls, "ffmpeg_protocol", 1800,
                Bounded, FALSE)

\* lines 846-897: binary concatenation, then remux
Ts3 ==
    /\ kind = "ts"
    /\ Strategy(3, "s3", "temp_concat.ts", calls, "ffmpeg_remux", 1800,
                Bounded, FALSE)

\* lines 899-962: re-encode
Ts4 ==
    /\ kind = "ts"
    /\ Strategy(4, "s4", "segment_list.txt", calls, "ffmpeg_reencode", 3600,
                Bounded, FALSE)

\* lines 964-1032: ffprobe of the first segment, then stream copy with
\* maximum error tolerance
Ts5 ==
    /\ kind = "ts"
    /\ Strategy(5, "s5", "segment_list.txt", Call(calls, "ffprobe", 0),
                "ffmpeg_force", 1800, Bounded, TRUE)

\* A raw-stream probe whose success is reported as the engine's
RawProbeResultJudged(o, f) == IF StrictSuccess(o, f) THEN "True" ELSE "False"

\* lines 1103-1114: whatever the raw-stream probe did, "return False"
RawProbeResult(o, f) == "False"

\* lines 1034-1114: the raw-stream probe, as H264 and, when that run exits
\* non-zero, as HEVC; both write test_raw.mp4; the function returns False
Ts6 ==
    /\ kind = "ts"
    /\ a_pc = "s6"
    /\ \E o1 \in Bounded, o2 \in Bounded :
         LET t1 == TmpAfter(tmp, "temp_raw.h264", o1)
             p1 == IF o1.kind = "raise_prep" THEN probe
                   ELSE FileAfter(probe, o1)
             c1 == IF o1.kind = "raise_prep" THEN calls
                   ELSE Call(calls, "ffmpeg_raw_h264", 60)
             second == o1.kind = "exit" /\ o1.rc # 0
         IN /\ tmp' = IF second THEN TmpAfter(t1, "temp_raw.h265", o2) ELSE t1
            /\ probe' = IF second /\ o2.kind # "raise_prep"
                        THEN FileAfter(p1, o2) ELSE p1
            /\ calls' = IF second /\ o2.kind # "raise_prep"
                        THEN Call(c1, "ffmpeg_raw_hevc", 60) ELSE c1
            /\ last' = [k |-> 6, o |-> IF second THEN o2 ELSE o1, out |-> out]
            /\ a_ret' = RawProbeResult(IF second THEN o2 ELSE o1, probe')
    /\ invoked' = Append(invoked, 6)
    /\ a_pc' = "done"
    /\ UNCHANGED out
    /\ UNCHANGED asmInputs
    /\ UNCHANGED notAsm

(***************************************************************************)
(* The JPEG ladder                                                         *)
(***************************************************************************)
\* lines 291-337: image2 demuxer
Jp1 ==
    /\ kind = "jpeg"
    /\ Strategy(1, "s1", NoArt, calls, "ffmpeg_image2", 300,
                Bounded, FALSE)

\* lines 339-398: concat demuxer over file_list.txt
Jp2 ==
    /\ kind = "jpeg"
    /\ Strategy(2, "s2", "file_list.txt", calls, "ffmpeg_concat", 300,
                Bounded, FALSE)

\* jpeg_files[:100], lines 408-410: the number of files staged for the test
PrefixLen(n) == IF n < 100 THEN n ELSE 100

\* A strategy 3 that goes on to the full set whenever the test run returned
TestPassedAnyExit(o, f) == o.kind = "exit"

\* lines 452-456: the test of test_output.mp4
TestPassed(o, f) == StrictSuccess(o, f)

\* lines 400-514: copies of the first 100 files in temp_processing/ are
\* muxed into test_output.mp4; when that test succeeds, copies of all the
\* files are muxed into the output
Jp3 ==
    /\ kind = "jpeg"
    /\ a_pc = "s3"
    /\ \E o1 \in Bounded, o2 \in Unbounded :
         LET t1 == TmpAfter(tmp, "temp_processing", o1)
             p1 == IF o1.kind = "raise_prep" THEN probe
                   ELSE FileAfter(probe, o1)
             c1 == IF o1.kind = "raise_prep" THEN calls
                   ELSE Call(calls, "ffmpeg_test", 60)
             testok == TestPassed(o1, p1)
             f == IF testok /\ o2.kind # "raise_prep"
                  THEN FileAfter(out, o2) ELSE out
             ok == testok /\ StrictSuccess(o2, f)
         IN /\ tmp' = IF testok THEN TmpAfter(t1, "temp_processing", o2)
                      ELSE t1
            /\ probe' = IF testok /\ o2.kind = "exit" THEN "absent" ELSE p1
            /\ calls' = IF testok /\ o2.kind # "raise_prep"
                        THEN Call(c1, "ffmpeg_full", 0) ELSE c1
            /\ out' = f
            /\ last' = [k |-> 3, o |-> IF testok THEN o2 ELSE o1, out |-> f,
                         test |-> [o |-> o1, file |-> p1,
                                   staged |-> PrefixLen(nseg)]]
            /\ a_pc' = IF ok THEN "done" ELSE FallThrough("s3")
            /\ a_ret' = IF ok THEN "True" ELSE a_ret
    /\ invoked' = Append(invoked, 3)
    /\ UNCHANGED asmInputs
    /\ UNCHANGED notAsm

\* lines 516-572: image2 demuxer with maximum error tolerance, no timeout
Jp4 ==
    /\ kind = "jpeg"
    /\ Strategy(4, "s4", NoArt, calls, "ffmpeg_force", 0,
                Unbounded, TRUE)

NextAsm ==
    \/ AsmNoFfmpeg \/ AsmNoSegments \/ AsmBegin
    \/ Ts1 \/ Ts2 \/ Ts3 \/ Ts4 \/ Ts5 \/ Ts6
    \/ Jp1 \/ Jp2 \/ Jp3 \/ Jp4

DlIdle ==
    /\ m3u8_exists = TRUE
    /\ lines = <<>>
    /\ base_url = NoBase
    /\ pc = "idle"
    /\ li = 0
    /\ segment_urls = <<>>
    /\ warnings = <<>>
    /\ i = 0
    /\ download_errors = 0
    /\ skipped_files = 0
    /\ downloaded = 0
    /\ requests = <<>>
    /\ status = <<>>
    /\ disk = [s \in Slots |-> "absent"]
    /\ disk0 = disk
    /\ outdir = TRUE
    /\ ret = "none"
    /\ runs = 1

\* The numbers of segment files the engines are run on: none, fewer and more
\* than the 100 files strategy 3 of the JPEG ladder stages for its test
SegCounts == {0, 2, 150}

InitAsm ==
    /\ kind \in {"ts", "jpeg"}
    /\ ffmpeg_ok \in BOOLEAN
    /\ nseg \in SegCounts
    /\ a_pc = "check"
    /\ out \in {"absent", "small", "big"}
    /\ tmp = {}
    /\ probe = "absent"
    /\ invoked = <<>>
    /\ calls = <<>>
    /\ last = NoOutcome
    /\ a_ret = "none"
    /\ DlIdle
    /\ NameIdle
    /\ ValIdle
    /\ MainIdle

SpecAsm == InitAsm /\ [][NextAsm]_vars

(***************************************************************************)
(* Properties of the assembly engines (SpecAsm)                            *)
(***************************************************************************)
LadderLen == IF kind = "ts" THEN 6 ELSE 4

StrategyName(k) ==
    CASE k = 1 -> "s1" [] k = 2 -> "s2" [] k = 3 -> "s3" [] k = 4 -> "s4"
      [] k = 5 -> "s5" [] k = 6 -> "s6" [] OTHER -> "done"

InOrder(seq) == seq = [j \in 1..Len(seq) |-> j]

LastTool == IF calls = <<>> THEN "-" ELSE calls[Len(calls)].tool

\* The output file is viable: it exists and is larger than 1024 bytes
Viable(f) == f = "big"

\* The strategy that ran last ended with success, in terms of what the tool
\* did: it exited and left a viable output, with exit code zero unless it is
\* the maximum-tolerance strategy; strategy 3 of the JPEG ladder only through
\* its full-set run, and strategy 6 of the transport-stream ladder never.
ToleratesExitCode(k) == (kind = "ts" /\ k = 5) \/ (kind = "jpeg" /\ k = 4)

EndedWithSuccess ==
    /\ last.k >= 1
    /\ last.o.kind = "exit"
    /\ Viable(last.out)
    /\ ToleratesExitCode(last.k) \/ last.o.rc = 0
    /\ ~(kind = "ts" /\ last.k = 6)
    /\ (kind = "jpeg" /\ last.k = 3) => LastTool = "ffmpeg_full"

\* C1 as stated: once the outcome of the first strategy is viable (the
\* output exists and is larger than 1024 bytes), no further strategy is
\* invoked.
C1_FirstViableStopsLadder ==
    [][(last.k = 1 /\ Viable(last.out)) => invoked' = invoked]_vars

\* C1: a strategy that ends with success (exit code zero and a
\* viable output; the maximum-tolerance strategy whatever the exit code)
\* makes the engine return success with no later strategy invoked, and the
\* engine returns success in no other case; when the first strategy exits
\* with code zero and a viable output, exactly one strategy was invoked.
C1_StopAtFirstSuccess ==
    /\ EndedWithSuccess =>
          /\ a_pc = "done"
          /\ a_ret = "True"
          /\ InOrder(invoked)
          /\ Len(invoked) = last.k
    /\ a_ret = "True" => EndedWithSuccess
    /\ (last.k = 1 /\ last.o.kind = "exit" /\ last.o.rc = 0
          /\ Viable(last.out)) => invoked = <<1>>

C1_Witness ==
    /\ a_pc = "done"
    /\ a_ret = "True"
    /\ invoked = <<1>>
    /\ last.k = 1
    /\ last.o.rc = 0
    /\ Viable(last.out)

\* The tools of the strategies, in ladder order
TsLadder == <<"ffmpeg_concat", "ffmpeg_protocol", "ffmpeg_remux",
              "ffmpeg_reencode", "ffmpeg_force", "ffmpeg_raw_h264">>
JpLadder == <<"ffmpeg_image2", "ffmpeg_concat", "ffmpeg_test",
              "ffmpeg_force">>
Ladder == IF kind = "ts" THEN TsLadder ELSE JpLadder

\* The place in the ladder of the strategy a tool run belongs to
RankOf(tool) ==
    CASE tool = "ffprobe" -> 5
      [] tool = "ffmpeg_raw_hevc" -> 6
      [] tool = "ffmpeg_full" -> 3
      [] OTHER -> CHOOSE k \in 1..Len(Ladder) : Ladder[k] = tool

\* C2: a strategy that ends without success is followed by the next strategy
\* of the ladder and by nothing else: the strategies invoked are 1, 2, ... in
\* ladder order, none skipped, reordered or repeated, and what comes next is
\* determined by the position in the ladder and the outcome of the last
\* strategy, so that equal outcomes give equal sequences.
C2_LadderOrder ==
    /\ InOrder(invoked)
    /\ Len(invoked) <= LadderLen
    /\ \A c \in 1..Len(calls) :
          /\ calls[c].tool \in {Ladder[k] : k \in 1..Len(Ladder)}
                                \cup {"ffprobe", "ffmpeg_raw_hevc", "ffmpeg_full"}
          /\ RankOf(calls[c].tool) \in {invoked[k] : k \in 1..Len(invoked)}
          /\ c > 1 => RankOf(calls[c - 1].tool) <= RankOf(calls[c].tool)
    /\ invoked # <<>> =>
          /\ last.k = Len(invoked)
          /\ a_pc = IF EndedWithSuccess \/ last.k = LadderLen THEN "done"
                    ELSE StrategyName(last.k + 1)
          /\ a_ret = IF EndedWithSuccess THEN "True"
                     ELSE IF last.k = LadderLen THEN "False" ELSE "none"

C2_Witness ==
    /\ kind = "ts"
    /\ a_pc = "done"
    /\ a_ret = "False"
    /\ invoked = <<1, 2, 3, 4, 5, 6>>
    /\ [c \in 1..Len(calls) |-> calls[c].tool] =
          <<"ffmpeg_concat", "ffmpeg_protocol", "ffmpeg_remux",
            "ffmpeg_reencode", "ffprobe", "ffmpeg_force", "ffmpeg_raw_h264",
            "ffmpeg_raw_hevc">>

\* C5: when a run of an engine returns, no temporary file it created is left:
\* no concat list, staged copy or byte-concatenation file, and no probe
\* output.
C5_NoTemporaryLeft ==
    a_pc = "done" => (tmp = {} /\ probe = "absent")

(***************************************************************************)
(* The order of the slot names (SpecNames)                                 *)
(***************************************************************************)
MaxIndex == 10001   \* the largest index a name is assigned to

\* Indices the earlier of two names is taken from
EarlierIndices == {0, 9, 999, 1000, 9999, 10000}

InitNames ==
    /\ n_kind \in {"ts", "jpeg"}
    /\ n_lo \in EarlierIndices
    /\ n_hi = n_lo + 1
    /\ DlIdle
    /\ AsmIdle
    /\ ValIdle
    /\ MainIdle

\* lines 52-53: the loop assigns the name of the next index
NameNext ==
    /\ n_hi < MaxIndex
    /\ n_hi' = n_hi + 1
    /\ UNCHANGED <<n_kind, n_lo>>
    /\ UNCHANGED notName

NextNames == NameNext

SpecNames == InitNames /\ [][NextNames]_vars

\* C6: the name given to an index sorts before the name given to any later
\* index, so that the sorted directory listing is in index order.
C6_NamesSortInIndexOrder ==
    n_lo < n_hi => StrLess(SlotName(n_kind, n_lo), SlotName(n_kind, n_hi))

(***************************************************************************)
(* validate_and_fix_jpegs, lines 98-184                                    *)
(***************************************************************************)
P_video == <<"v","i","d","e","o">>

P_jpeg == <<".","j","p","e","g">>

\* glob "video*.jpeg" (line 108)
GlobVideo(n) ==
    /\ Len(n) >= Len(P_video) + Len(P_jpeg)
    /\ StartsWith(n, P_video)
    /\ EndsWith(n, P_jpeg)

\* The size below which a file is removed unread (line 127)
MinSize == 512

\* A variant of the checks that never looks at the last two bytes
VerdictNoFooter(f) ==
    IF f.size < MinSize THEN "tiny"
    ELSE IF ~f.head THEN "header"
    ELSE "valid"

\* A size check that also removes a file of exactly 512 bytes
VerdictSizeInclusive(f) ==
    IF f.size <= MinSize THEN "tiny"
    ELSE IF ~f.head THEN "header"
    ELSE IF ~f.tail THEN "footer"
    ELSE "valid"

\* A variant that reads the markers before it looks at the size
VerdictMarkersFirst(f) ==
    IF ~f.head THEN "header"
    ELSE IF ~f.tail THEN "footer"
    ELSE IF f.size < MinSize THEN "tiny"
    ELSE "valid"

\* The checks of lines 126-155, in the order the code makes them
Verdict(f) ==
    IF f.size < MinSize THEN "tiny"
    ELSE IF ~f.head THEN "header"
    ELSE IF ~f.tail THEN "footer"
    ELSE "valid"

\* The sizes of the files of the directory: below and at the minimum
FileSizes == {300, 511, 512}

JpegStates == {Absent} \cup {File(s, h, t) : s \in FileSizes, h \in BOOLEAN, t \in BOOLEAN}

TsStates == {Absent, File(300, FALSE, FALSE)}

InitValidate ==
    /\ vfiles0 \in {d \in [DirNames -> JpegStates \cup TsStates] :
                      \A n \in DirNames :
                          d[n] \in (IF GlobVideo(n) THEN JpegStates ELSE TsStates)}
    /\ vfiles = vfiles0
    /\ v_pc = "idle"
    /\ jpeg_files = <<>>
    /\ v_i = 0
    /\ valid_count = 0
    /\ removed_count = 0
    /\ v_log = <<>>
    /\ DlIdle
    /\ AsmIdle
    /\ NameIdle
    /\ MainIdle

\* lines 108-115: the listing and the counters
ValStart ==
    /\ v_pc = "idle"
    /\ jpeg_files' = Sorted({n \in DirNames : vfiles[n].present /\ GlobVideo(n)})
    /\ valid_count' = 0
    /\ removed_count' = 0
    /\ v_i' = 0
    /\ v_pc' = "loop"
    /\ UNCHANGED <<vfiles0, vfiles, v_log>>
    /\ UNCHANGED notVal

valFrame == <<vfiles0, v_pc, jpeg_files>>

\* One iteration of the loop of line 117 that no exception interrupts
ValFile ==
    /\ v_pc = "loop"
    /\ v_i < Len(jpeg_files)
    /\ LET n == jpeg_files[v_i + 1]
           v == Verdict(vfiles[n])
       IN IF v = "valid"
          THEN /\ valid_count' = valid_count + 1              \* line 170
               /\ UNCHANGED <<vfiles, removed_count>>
               /\ v_log' = Append(v_log, [name |-> n, verdict |-> v, fault |-> "none",
                                          opened |-> TRUE, removed |-> FALSE])
          ELSE /\ vfiles' = [vfiles EXCEPT ![n] = Absent]     \* lines 131, 142, 153
               /\ removed_count' = removed_count + 1
               /\ UNCHANGED valid_count
               /\ v_log' = Append(v_log, [name |-> n, verdict |-> v, fault |-> "none",
                                          opened |-> (v # "tiny"), removed |-> TRUE])
    /\ v_i' = v_i + 1
    /\ UNCHANGED valFrame
    /\ UNCHANGED notVal

\* The file is gone since the listing: os.path.getsize raises (line 126), the
\* handler of line 172 clears is_valid, os.remove raises OSError (line 178)
\* and line 181 passes
ValFileGone ==
    /\ v_pc = "loop"
    /\ v_i < Len(jpeg_files)
    /\ LET n == jpeg_files[v_i + 1]
       IN /\ vfiles' = [vfiles EXCEPT ![n] = Absent]
          /\ v_log' = Append(v_log, [name |-> n, verdict |-> "error", fault |-> "gone",
                                     opened |-> FALSE, removed |-> FALSE])
    /\ v_i' = v_i + 1
    /\ UNCHANGED <<valid_count, removed_count>>
    /\ UNCHANGED valFrame
    /\ UNCHANGED notVal

\* A file the size check let through cannot be read: open raises at line 136
\* and the handler of line 172 clears is_valid, or, after the marker checks
\* have passed, the second read of lines 161-165 raises and the handler of
\* line 166 clears is_valid; line 178 removes the file
ValFileUnreadable ==
    /\ v_pc = "loop"
    /\ v_i < Len(jpeg_files)
    /\ \E at \in {"open", "reread"} :
         LET n == jpeg_files[v_i + 1]
         IN /\ vfiles[n].size >= MinSize
            /\ at = "reread" => Verdict(vfiles[n]) = "valid"
            /\ vfiles' = [vfiles EXCEPT ![n] = Absent]
            /\ v_log' = Append(v_log, [name |-> n, verdict |-> "error",
                                       fault |-> at,
                                       opened |-> (at = "reread"),
                                       removed |-> TRUE])
    /\ removed_count' = removed_count + 1
    /\ v_i' = v_i + 1
    /\ UNCHANGED valid_count
    /\ UNCHANGED valFrame
    /\ UNCHANGED notVal

\* A validator without the handler of line 180: the second os.remove raises
\* out of the function
ValFileStuckRaising ==
    /\ v_pc = "loop"
    /\ v_i < Len(jpeg_files)
    /\ Verdict(vfiles[jpeg_files[v_i + 1]]) # "valid"
    /\ v_pc' = "raised"
    /\ UNCHANGED <<vfiles0, vfiles, jpeg_files, v_i, valid_count,
                   removed_count, v_log>>
    /\ UNCHANGED notVal

\* A validator that counts a file as removed although os.remove raised
ValFileStuckCounted ==
    /\ v_pc = "loop"
    /\ v_i < Len(jpeg_files)
    /\ LET n == jpeg_files[v_i + 1]
           v == Verdict(vfiles[n])
       IN /\ v # "valid"
          /\ v_log' = Append(v_log, [name |-> n, verdict |-> v, fault |-> "remove",
                                     opened |-> (v # "tiny"), removed |-> FALSE])
    /\ v_i' = v_i + 1
    /\ removed_count' = removed_count + 1
    /\ UNCHANGED <<vfiles, valid_count>>
    /\ UNCHANGED valFrame
    /\ UNCHANGED notVal

\* os.remove raises for a file that failed a check (lines 131, 142, 153): the
\* handler of line 172 clears is_valid, os.remove raises again (line 178)
\* and line 181 passes; the file stays and no counter moves
ValFileStuck ==
    /\ v_pc = "loop"
    /\ v_i < Len(jpeg_files)
    /\ LET n == jpeg_files[v_i + 1]
           v == Verdict(vfiles[n])
       IN /\ v # "valid"
          /\ v_log' = Append(v_log, [name |-> n, verdict |-> v, fault |-> "remove",
                                     opened |-> (v # "tiny"), removed |-> FALSE])
    /\ v_i' = v_i + 1
    /\ UNCHANGED <<vfiles, valid_count, removed_count>>
    /\ UNCHANGED valFrame
    /\ UNCHANGED notVal

\* lines 183-184
ValDone ==
    /\ v_pc = "loop"
    /\ v_i = Len(jpeg_files)
    /\ v_pc' = "done"
    /\ UNCHANGED <<vfiles0, vfiles, jpeg_files, v_i, valid_count, removed_count, v_log>>
    /\ UNCHANGED notVal

NextValidate ==
    \/ ValStart
    \/ ValFile
    \/ ValFileGone
    \/ ValFileUnreadable
    \/ ValFileStuck
    \/ ValDone

SpecValidate == InitValidate /\ [][NextValidate]_vars

(***************************************************************************)
(* Properties of the validator (SpecValidate)                              *)
(***************************************************************************)
\* A failing file: too small, or without the start marker,
\* or without the end marker
Failing(f) == f.present /\ (f.size < MinSize \/ ~f.head \/ ~f.tail)

\* The entries of the log about the file of one name
LogOf(n) == {k \in 1..Len(v_log) : v_log[k].name = n}

\* C7 as stated: once the validator has returned, every failing file of the
\* directory, whatever its name, is gone.
C7_FailingRemovedWhateverTheName ==
    v_pc = "done" =>
        \A n \in DirNames : Failing(vfiles0[n]) => ~vfiles[n].present

\* C7: once the validator has returned, every failing file whose name matches
\* video*.jpeg has been judged not valid exactly once, and is gone unless the
\* file system refused its removal; a file of any other name is never listed
\* and stays as it was.
C7_FailingListedRemoved ==
    v_pc = "done" =>
        /\ \A n \in DirNames : (GlobVideo(n) /\ Failing(vfiles0[n])) =>
              /\ Cardinality(LogOf(n)) = 1
              /\ \A k \in LogOf(n) :
                    /\ v_log[k].verdict # "valid"
                    /\ (v_log[k].fault # "remove" => ~vfiles[n].present)
        /\ \A n \in DirNames : ~GlobVideo(n) =>
              /\ LogOf(n) = {}
              /\ vfiles[n] = vfiles0[n]

\* A run that removed a full-size file for its missing end marker, and one
\* for its size, beside a failing file of another name that it left alone
C7_Witness ==
    /\ v_pc = "done"
    /\ vfiles0[VideoName(0)] = File(512, TRUE, FALSE)
    /\ vfiles0[VideoName(1)] = File(300, TRUE, TRUE)
    /\ vfiles0[SegmentName(0)] = File(300, FALSE, FALSE)
    /\ ~vfiles[VideoName(0)].present
    /\ ~vfiles[VideoName(1)].present
    /\ vfiles[SegmentName(0)].present
    /\ removed_count = 2

(***************************************************************************)
(* Encryption-key directives (SpecParse)                                   *)
(***************************************************************************)
P_key == <<"#","E","X","T","-","X","-","K","E","Y">>

\* A manifest line that is an encryption-key directive
IsKeyDirective(raw) == StartsWith(Strip(raw), P_key)

\* C11: once the manifest is parsed, every encryption-key directive line of
\* it has produced a warning; none is passed over in silence.
C11_KeyDirectiveWarned ==
    pc = "fetch" =>
        \A k \in 1..Len(lines) :
            IsKeyDirective(lines[k]) =>
                \E w \in 1..Len(warnings) : warnings[w] = Strip(lines[k])

(***************************************************************************)
(* The success decision of a strategy (SpecAsm)                            *)
(***************************************************************************)
\* The engine has decided that the strategy that ran last succeeded
DecidedSuccess == a_pc = "done" /\ a_ret = "True"

IsRawProbe(k) == kind = "ts" /\ k = 6

\* C12 as stated: the decision that the strategy that ran last succeeded is
\* exactly that the output exists and is larger than 1024 bytes.
C12_DecisionIsViability ==
    last.k >= 1 => (DecidedSuccess <=> Viable(last.out))

\* C12: the decision that the strategy that ran last succeeded is that its
\* tool run returned with exit code zero and the output exists and is larger
\* than 1024 bytes; the maximum-tolerance strategy does not look at the exit
\* code, strategy 3 of the JPEG ladder decides on its full-set run only, and
\* the raw-stream probe never succeeds.
C12_DecisionIsExitZeroAndViable ==
    last.k >= 1 =>
        /\ DecidedSuccess => Viable(out)
        /\ IsRawProbe(last.k) => ~DecidedSuccess
        /\ ToleratesExitCode(last.k) =>
              (DecidedSuccess <=> (last.o.kind = "exit" /\ Viable(last.out)))
        /\ (~ToleratesExitCode(last.k) /\ ~IsRawProbe(last.k)) =>
              (DecidedSuccess <=>
                  /\ last.o.kind = "exit"
                  /\ last.o.rc = 0
                  /\ Viable(last.out)
                  /\ (kind = "jpeg" /\ last.k = 3) => LastTool = "ffmpeg_full")

\* Strategy 2 of the JPEG ladder left a viable output but exited non-zero:
\* the ladder goes on
C12_Witness ==
    /\ kind = "jpeg"
    /\ invoked = <<1, 2>>
    /\ last.o.kind = "exit"
    /\ last.o.rc = 1
    /\ Viable(last.out)
    /\ a_pc = "s3"
    /\ a_ret = "none"

\* C13: when the tool of the maximum-tolerance strategy has returned and the
\* output exists and is larger than 1024 bytes, the strategy is accepted and
\* the engine returns success, whatever the exit code.
C13_TolerantAcceptsNonZeroExit ==
    (last.k >= 1 /\ ToleratesExitCode(last.k) /\ last.o.kind = "exit"
        /\ Viable(last.out))
    => (DecidedSuccess /\ Len(invoked) = last.k)

\* The maximum-tolerance strategy of the transport-stream ladder accepted an
\* output its tool wrote while exiting non-zero
C13_Witness ==
    /\ kind = "ts"
    /\ last.k = 5
    /\ last.o = [kind |-> "exit", rc |-> 1, wrote |-> "big"]
    /\ LastTool = "ffmpeg_force"
    /\ DecidedSuccess

(***************************************************************************)
(* Timeouts (SpecAsm)                                                      *)
(***************************************************************************)
\* The number of runs of the tool that ran last
RunsOfLastTool == Cardinality({c \in 1..Len(calls) : calls[c].tool = LastTool})

\* C14: when the tool run of a strategy has timed out, the strategy has
\* failed whatever it left on disk, it was invoked once and its tool was run
\* once, and the engine is at the next strategy of the ladder, or, after the
\* last one, has returned failure.
C14_TimeoutFailsStrategy ==
    (last.k >= 1 /\ last.o.kind = "timeout") =>
        /\ ~DecidedSuccess
        /\ InOrder(invoked)
        /\ Len(invoked) = last.k
        /\ RunsOfLastTool = 1
        /\ a_pc = IF last.k = LadderLen THEN "done" ELSE StrategyName(last.k + 1)
        /\ a_ret = IF last.k = LadderLen THEN "False" ELSE "none"

\* The re-encode of the transport-stream ladder timed out after writing a
\* large output, and the ladder is at strategy 5
C14_Witness ==
    /\ kind = "ts"
    /\ last.k = 4
    /\ last.o = [kind |-> "timeout", rc |-> 1, wrote |-> "big"]
    /\ LastTool = "ffmpeg_reencode"
    /\ a_pc = "s5"
\* C15: every run of an external tool that a strategy makes is bounded by a
\* timeout, so that no run of a tool can keep the engine from returning.
C15_EveryRunHasTimeout ==
    \A c \in 1..Len(calls) : calls[c].timeout > 0

(***************************************************************************)
(* The segment directory as the engines list it (SpecAsm)                  *)
(***************************************************************************)
P_segment == <<"s","e","g","m","e","n","t">>

P_ts == <<".","t","s">>

\* glob "segment*.ts" (line 732) and glob "video*.jpeg" (line 281)
SegGlob(k, n) ==
    IF k = "ts"
    THEN /\ Len(n) >= Len(P_segment) + Len(P_ts)
         /\ StartsWith(n, P_segment)
         /\ EndsWith(n, P_ts)
    ELSE GlobVideo(n)

\* An engine that calls its byte-concatenation file segment_concat.ts
ArtCharsInGlob(a) ==
    CASE a = "segment_list.txt" -> <<"s","e","g","m","e","n","t","_","l","i","s","t",".","t","x","t">>
      [] a = "file_list.txt" -> <<"f","i","l","e","_","l","i","s","t",".","t","x","t">>
      [] a = "temp_concat.ts" -> <<"s","e","g","m","e","n","t","_","c","o","n","c","a","t",".","t","s">>
      [] a = "temp_raw.h264" -> <<"t","e","m","p","_","r","a","w",".","h","2","6","4">>
      [] a = "temp_raw.h265" -> <<"t","e","m","p","_","r","a","w",".","h","2","6","5">>
      [] a = "temp_processing" -> <<"t","e","m","p","_","p","r","o","c","e","s","s","i","n","g">>
      [] a = "test_output.mp4" -> <<"t","e","s","t","_","o","u","t","p","u","t",".","m","p","4">>
      [] a = "test_raw.mp4" -> <<"t","e","s","t","_","r","a","w",".","m","p","4">>

\* The names of the files the engines create in the segment directory
\* (lines 342, 403, 438, 760, 849, 902, 980, 1038, 1059, 1075)
ArtChars(a) ==
    CASE a = "segment_list.txt" -> <<"s","e","g","m","e","n","t","_","l","i","s","t",".","t","x","t">>
      [] a = "file_list.txt" -> <<"f","i","l","e","_","l","i","s","t",".","t","x","t">>
      [] a = "temp_concat.ts" -> <<"t","e","m","p","_","c","o","n","c","a","t",".","t","s">>
      [] a = "temp_raw.h264" -> <<"t","e","m","p","_","r","a","w",".","h","2","6","4">>
      [] a = "temp_raw.h265" -> <<"t","e","m","p","_","r","a","w",".","h","2","6","5">>
      [] a = "temp_processing" -> <<"t","e","m","p","_","p","r","o","c","e","s","s","i","n","g">>
      [] a = "test_output.mp4" -> <<"t","e","s","t","_","o","u","t","p","u","t",".","m","p","4">>
      [] a = "test_raw.mp4" -> <<"t","e","s","t","_","r","a","w",".","m","p","4">>

\* The probe output of the ladder: test_output.mp4 (line 438), test_raw.mp4
\* (line 1059)
ProbeName == IF kind = "ts" THEN "test_raw.mp4" ELSE "test_output.mp4"

\* The segment files the fetcher left, by name
Segments0 == {SlotName(kind, j) : j \in 0..(nseg - 1)}

\* os.listdir(input_dir)
Listing ==
    Segments0 \cup {ArtChars(a) : a \in tmp}
              \cup (IF probe = "absent" THEN {} ELSE {ArtChars(ProbeName)})

\* The segment set on disk: what the glob of the engine lists
SegmentSet == {n \in Listing : SegGlob(kind, n)}

\* C16: an engine run that has exhausted its ladder without success has
\* returned failure, and in every state of every run the segment set on disk
\* is the set the run started with: no segment file is added, removed or
\* renamed.
C16_FailureLeavesSegments ==
    /\ (a_pc = "done" /\ Len(invoked) = LadderLen /\ ~EndedWithSuccess)
          => a_ret = "False"
    /\ (a_pc = "done" /\ a_ret # "True") => a_ret = "False"
    /\ SegmentSet = Segments0
    /\ Cardinality(SegmentSet) = nseg

\* The transport-stream ladder exhausted on two segments, with temporary
\* files left beside them
C16_Witness ==
    /\ kind = "ts"
    /\ nseg = 2
    /\ a_pc = "done"
    /\ a_ret = "False"
    /\ invoked = <<1, 2, 3, 4, 5, 6>>
    /\ "temp_concat.ts" \in tmp
    /\ "segment_list.txt" \in tmp

(***************************************************************************)
(* main of download_mp4_from_jpegts_based_m3u8.py, lines 1117-1160: the    *)
(* download function, then, unless --no-combine-video is given, the        *)
(* transport-stream engine over the output directory.                      *)
(***************************************************************************)
\* Manifests main is run on: an empty one, and one with a relative line
\* (dropped, as main is run without --base-url) and an absolute line
MainManifests == {<<>>, <<L_rel, L_abs>>}

InitMain ==
    /\ m3u8_exists \in BOOLEAN
    /\ m3u8_readable \in BOOLEAN
    /\ m3u8_readable => m3u8_exists
    /\ lines \in MainManifests
    /\ base_url = NoBase
    /\ pc = "start"
    /\ li = 0
    /\ segment_urls = <<>>
    /\ warnings = <<>>
    /\ i = 0
    /\ download_errors = 0
    /\ skipped_files = 0
    /\ downloaded = 0
    /\ requests = <<>>
    /\ status = <<>>
    /\ disk \in {[s \in Slots |-> "absent"],
                 [s \in Slots |-> IF s = 0 THEN "complete" ELSE "absent"]}
    /\ disk0 = disk
    /\ outdir = (disk[0] # "absent")
    /\ ret = "none"
    /\ runs = 1
    /\ kind = "ts"
    /\ ffmpeg_ok \in BOOLEAN
    /\ nseg = 0
    /\ a_pc = "idle"
    /\ out \in {"absent", "big"}
    /\ tmp = {}
    /\ probe = "absent"
    /\ invoked = <<>>
    /\ calls = <<>>
    /\ last = NoOutcome
    /\ a_ret = "none"
    /\ NameIdle
    /\ ValIdle
    /\ no_combine \in BOOLEAN
    /\ m_pc = "download"
    /\ exit_code = -1

\* lines 28-31: the manifest exists but open or readlines raises; nothing in
\* download_segments_from_m3u8 or main catches it
StartUnreadable ==
    /\ UNCHANGED notDl
    /\ pc = "start"
    /\ m3u8_exists
    /\ ~m3u8_readable
    /\ outdir' = TRUE
    /\ pc' = "raised"
    /\ UNCHANGED <<m3u8_exists, lines, base_url, li, segment_urls, warnings, i,
                   download_errors, skipped_files, downloaded, requests,
                   status, disk, ret, runs, disk0>>

mainFrame == <<m3u8_readable, no_combine>>

\* A main that forgets the result of the engine
ExitStatusIgnoring(success) == 0

\* lines 1151-1152 and 1158-1160: sys.exit(1) after a False, else the end of
\* main
ExitStatus(success) == IF success = "True" THEN 0 ELSE 1

\* An uncaught exception ends the interpreter with status 1
MainUncaught ==
    /\ m_pc = "download"
    /\ pc = "raised"
    /\ exit_code' = 1
    /\ m_pc' = "exited"
    /\ UNCHANGED <<dlVars, asmVars, nameVars, valVars, mainFrame>>

\* lines 1151-1152: the download function returned False
MainDownloadFailed ==
    /\ m_pc = "download"
    /\ pc = "done"
    /\ ret = "False"
    /\ exit_code' = ExitStatus(ret)
    /\ m_pc' = "exited"
    /\ UNCHANGED <<dlVars, asmVars, nameVars, valVars, mainFrame>>

\* line 1153 with --no-combine-video: main ends
MainSkipCombine ==
    /\ m_pc = "download"
    /\ pc = "done"
    /\ ret = "True"
    /\ no_combine
    /\ exit_code' = 0
    /\ m_pc' = "exited"
    /\ UNCHANGED <<dlVars, asmVars, nameVars, valVars, mainFrame>>

\* lines 1153-1157: the engine is called on the output directory
MainCombineCall ==
    /\ m_pc = "download"
    /\ pc = "done"
    /\ ret = "True"
    /\ ~no_combine
    /\ m_pc' = "combine"
    /\ kind' = "ts"
    /\ nseg' = Cardinality({sl \in Slots : disk[sl] # "absent"})
    /\ a_pc' = "check"
    /\ UNCHANGED <<ffmpeg_ok, out, tmp, probe, invoked, calls, last, a_ret>>
    /\ UNCHANGED <<dlVars, nameVars, valVars, mainFrame, exit_code>>

\* lines 1158-1160: the engine has returned
MainCombineReturn ==
    /\ m_pc = "combine"
    /\ a_pc = "done"
    /\ exit_code' = ExitStatus(a_ret)
    /\ m_pc' = "exited"
    /\ UNCHANGED <<dlVars, asmVars, nameVars, valVars, mainFrame>>

NextMain ==
    \/ StartMissing \/ StartUnreadable \/ StartRead \/ ParseLine \/ ParseDone
    \/ FetchSkip \/ FetchOk \/ FetchRequestError \/ FetchOpenError
    \/ FetchStreamError \/ FetchDone
    \/ MainUncaught \/ MainDownloadFailed \/ MainSkipCombine
    \/ MainCombineCall
    \/ AsmNoFfmpeg \/ AsmNoSegments \/ AsmBegin
    \/ Ts1 \/ Ts2 \/ Ts3 \/ Ts4 \/ Ts5 \/ Ts6
    \/ MainCombineReturn

SpecMain == InitMain /\ [][NextMain]_vars

(***************************************************************************)
(* Properties of main (SpecMain)                                           *)
(***************************************************************************)
\* The requested combination has failed
CombineFailed == ~no_combine /\ a_pc = "done" /\ a_ret = "False"

\* C17: when main has ended, the exit status is non-zero exactly when the
\* manifest is missing or cannot be read or the requested combination has
\* failed; dropped reference lines and failed segments do not by themselves
\* make it non-zero, and with --no-combine-video a readable manifest gives
\* exit status 0.
C17_ExitStatus ==
    m_pc = "exited" =>
        /\ exit_code \in {0, 1}
        /\ exit_code # 0 <=>
              (~m3u8_exists \/ ~m3u8_readable \/ CombineFailed)
        /\ (no_combine /\ m3u8_readable) => exit_code = 0

\* A run with --no-combine-video that dropped a reference line and failed
\* to fetch its only segment, and ended with status 0
C17_Witness ==
    /\ m_pc = "exited"
    /\ no_combine
    /\ warnings # <<>>
    /\ Len(segment_urls) = 1
    /\ download_errors = 1
    /\ exit_code = 0
\* The stages at work on the segment set
FetcherAtWork == pc \in {"parse", "fetch"}

ValidatorAtWork == v_pc = "loop"

EngineAtWork == a_pc \notin {"idle", "done"}

\* C18: in a run of main the validator inspects segments only once the
\* fetcher has finished with every segment, the engine reads the segment set
\* only once the fetcher has finished and the validator has run to its end,
\* and no two stages are at work at the same time.
C18_StagesInOrder ==
    /\ v_pc # "idle" => (pc = "done" /\ i = Len(segment_urls))
    /\ a_pc # "idle" => (pc = "done" /\ i = Len(segment_urls) /\ v_pc = "done")
    /\ ~(FetcherAtWork /\ ValidatorAtWork)
    /\ ~(FetcherAtWork /\ EngineAtWork)
    /\ ~(ValidatorAtWork /\ EngineAtWork)

\* The part of the order that main keeps: the engine reads the segment set
\* only once the fetcher has finished with every segment
FetchBeforeEngine ==
    /\ a_pc # "idle" => (pc = "done" /\ i = Len(segment_urls))
    /\ ~(FetcherAtWork /\ EngineAtWork)
    /\ v_pc = "idle"

C20_WitnessNoReference ==
    /\ pc = "done"
    /\ ret = "True"
    /\ lines # <<>>
    /\ segment_urls = <<>>
    /\ requests = <<>>

(***************************************************************************)
(* A missing manifest (SpecMain)                                           *)
(***************************************************************************)
\* C21: when the manifest is missing, no request is made, the output
\* directory is not created and no file is written, the download function
\* returns False, the engine is never called and main ends with a non-zero
\* exit status.
C21_MissingManifestIsFatal ==
    ~m3u8_exists =>
        /\ requests = <<>>
        /\ disk = disk0
        /\ outdir = (disk0[0] # "absent")
        /\ pc \in {"start", "done"}
        /\ pc = "done" => ret = "False"
        /\ a_pc = "idle"
        /\ invoked = <<>>
        /\ calls = <<>>
        /\ m_pc \in {"download", "exited"}
        /\ m_pc = "exited" => exit_code = 1

\* main has ended on a missing manifest, combination requested, nothing
\* created
C21_Witness ==
    /\ ~m3u8_exists
    /\ ~no_combine
    /\ lines # <<>>
    /\ m_pc = "exited"
    /\ exit_code = 1
    /\ ret = "False"
    /\ ~outdir

(***************************************************************************)
(* The order of the checks of the validator (SpecValidate)                 *)
(***************************************************************************)
\* The number of files the validator has removed
RemovedInLog == Cardinality({k \in 1..Len(v_log) : v_log[k].removed})

\* C22 as stated: a listed file below the minimum size is never opened, and
\* the size check, when it comes to the file, removes it and counts it as
\* removed.
C22_SizeCheckAlwaysRemoves ==
    /\ \A k \in 1..Len(v_log) :
          LET e == v_log[k]
              f == vfiles0[e.name]
          IN (f.present /\ f.size < MinSize) =>
                /\ ~e.opened
                /\ e.fault # "gone" =>
                      (e.verdict = "tiny" /\ e.removed /\ ~vfiles[e.name].present)
    /\ removed_count = RemovedInLog

\* C22: a listed file below the minimum size is never opened: the size
\* check decides on it before any marker is read; it is judged by the size
\* check whenever its size could be read, and then, unless os.remove fails,
\* removed and counted as removed.
C22_SizeCheckFirst ==
    /\ \A k \in 1..Len(v_log) :
          LET e == v_log[k]
              f == vfiles0[e.name]
          IN (f.present /\ f.size < MinSize) =>
                /\ ~e.opened
                /\ e.fault \in {"none", "gone", "remove"}
                /\ e.fault # "gone" => e.verdict = "tiny"
                /\ e.fault = "none" => (e.removed /\ ~vfiles[e.name].present)
    /\ removed_count = RemovedInLog

\* The 300-byte video0000.jpeg, without markers, removed by the size check
C22_Witness ==
    /\ v_pc = "done"
    /\ vfiles0[VideoName(0)] = File(300, FALSE, FALSE)
    /\ ~vfiles[VideoName(0)].present
    /\ v_log[1] = [name |-> VideoName(0), verdict |-> "tiny", fault |-> "none",
                   opened |-> FALSE, removed |-> TRUE]
    /\ removed_count >= 1

(***************************************************************************)
(* ffmpeg_validate_jpegs, lines 187-259: one decode probe per listed file  *)
(***************************************************************************)
\* How "ffmpeg -v error -i file -f null -" under timeout=5 can end: it exits,
\* subprocess.run raises TimeoutExpired, or it raises something else
ProbeOutcomes ==
    {[kind |-> "exit", rc |-> 0], [kind |-> "exit", rc |-> 1],
     [kind |-> "timeout", rc |-> 1], [kind |-> "raise", rc |-> 1]}

\* A check that lets a file pass when its probe timed out
DeepVerdictTimeoutPasses(o) ==
    CASE o.kind = "exit" /\ o.rc = 0 -> "decodes"
      [] o.kind = "exit" -> "undecodable"
      [] o.kind = "timeout" -> "decodes"
      [] OTHER -> "error"

\* lines 228-250: what the function makes of the end of a probe
DeepVerdict(o) ==
    CASE o.kind = "exit" /\ o.rc = 0 -> "decodes"
      [] o.kind = "exit" -> "undecodable"
      [] o.kind = "timeout" -> "timeout"
      [] OTHER -> "error"

\* The files the two validators are run on together: absent, too small,
\* without start marker, without end marker, sound
ProbedStates ==
    {Absent, File(300, FALSE, FALSE), File(512, FALSE, TRUE),
     File(512, TRUE, FALSE), File(512, TRUE, TRUE)}

InitValidators ==
    /\ vfiles0 \in {d \in [DirNames -> ProbedStates] :
                      \A n \in DirNames :
                          ~GlobVideo(n) => d[n] \in TsStates}
    /\ vfiles = vfiles0
    /\ v_pc = "idle"
    /\ jpeg_files = <<>>
    /\ v_i = 0
    /\ valid_count = 0
    /\ removed_count = 0
    /\ v_log = <<>>
    /\ DlIdle
    /\ AsmIdle
    /\ NameIdle
    /\ MainIdle

\* lines 197-204: the listing and the counters
DeepStart ==
    /\ v_pc = "idle"
    /\ jpeg_files' = Sorted({n \in DirNames : vfiles[n].present /\ GlobVideo(n)})
    /\ valid_count' = 0
    /\ removed_count' = 0
    /\ v_i' = 0
    /\ v_pc' = "probe"
    /\ UNCHANGED <<vfiles0, vfiles, v_log>>
    /\ UNCHANGED notVal

\* lines 206-256: one file is probed.  A file that is not valid is removed by
\* os.remove (line 237, 244 or 252); when os.remove raises, for a file that
\* is gone or for one that cannot be removed, the handlers of lines 250-255
\* end in "pass" and no counter moves
DeepFile ==
    /\ v_pc = "probe"
    /\ v_i < Len(jpeg_files)
    /\ \E o \in ProbeOutcomes, fs \in {"none", "remove", "gone"} :
         LET n == jpeg_files[v_i + 1]
             v == DeepVerdict(o)
         IN /\ v = "decodes" => fs = "none"
            /\ valid_count' = IF v = "decodes" THEN valid_count + 1
                              ELSE valid_count
            /\ removed_count' = IF v # "decodes" /\ fs = "none"
                                THEN removed_count + 1 ELSE removed_count
            /\ vfiles' = IF v # "decodes" /\ fs # "remove"
                         THEN [vfiles EXCEPT ![n] = Absent] ELSE vfiles
            /\ v_log' = Append(v_log, [name |-> n, verdict |-> v, fault |-> fs,
                                       opened |-> (o.kind # "raise"),
                                       probe |-> o,
                                       removed |-> (v # "decodes" /\ fs = "none")])
    /\ v_i' = v_i + 1
    /\ UNCHANGED valFrame
    /\ UNCHANGED notVal

\* lines 258-259
DeepDone ==
    /\ v_pc = "probe"
    /\ v_i = Len(jpeg_files)
    /\ v_pc' = "done"
    /\ UNCHANGED <<vfiles0, vfiles, jpeg_files, v_i, valid_count, removed_count, v_log>>
    /\ UNCHANGED notVal

NextValidators ==
    \/ ValStart \/ ValFile \/ ValFileGone \/ ValFileUnreadable
    \/ ValFileStuck \/ ValDone
    \/ DeepStart \/ DeepFile \/ DeepDone

SpecValidators == InitValidators /\ [][NextValidators]_vars

(***************************************************************************)
(* Properties of the two validators (SpecValidators)                       *)
(***************************************************************************)
\* The listing is in filename order
ListedInOrder ==
    \A k \in 1..(Len(jpeg_files) - 1) : StrLess(jpeg_files[k], jpeg_files[k + 1])

\* C23: neither validator raises: whatever fails for one file (its size
\* cannot be read, it cannot be opened, its probe times out or raises, it
\* cannot be removed or is already gone), the loop goes on with the next file
\* of the listing, in filename order, and the function returns only when every
\* listed file has been processed once.
C23_ValidatorNeverRaises ==
    /\ v_pc \in {"idle", "loop", "probe", "done"}
    /\ ListedInOrder
    /\ v_pc # "idle" =>
          /\ Len(v_log) = v_i
          /\ v_i <= Len(jpeg_files)
          /\ \A k \in 1..Len(v_log) : v_log[k].name = jpeg_files[k]
    /\ v_pc = "done" => v_i = Len(jpeg_files)

\* A run that could not remove its first file, found the second one gone,
\* and went on to the end
C23_Witness ==
    /\ v_pc = "done"
    /\ Len(jpeg_files) = 2
    /\ v_log[1].fault = "remove"
    /\ v_log[2].fault = "gone"

\* A run of the deep check whose first probe raised and whose second timed
\* out, to the end of the listing
C23_WitnessDeep ==
    /\ v_pc = "done"
    /\ Len(jpeg_files) = 2
    /\ v_log[1].verdict = "error"
    /\ v_log[2].verdict = "timeout"

\* The entries the deep check writes
IsDeepEntry(e) == "probe" \in DOMAIN e

DeepRun == v_pc = "probe" \/ (v_log # <<>> /\ IsDeepEntry(v_log[1]))

DecodesInLog ==
    Cardinality({k \in 1..Len(v_log) : v_log[k].verdict = "decodes"})

ProbePassed(o) == o.kind = "exit" /\ o.rc = 0
ProbeFailed(o) == (o.kind = "exit" /\ o.rc # 0) \/ o.kind = "timeout"

\* C24 as stated: in the deep check a file whose probe exits with code zero
\* stays and is counted valid, and a file whose probe exits non-zero or times
\* out is removed and counted as removed (a file that was already gone when
\* the removal came counts as removed here).
C24_ProbeDecidesRemoval ==
    DeepRun =>
        /\ \A k \in 1..Len(v_log) :
              LET e == v_log[k]
              IN /\ ProbePassed(e.probe) =>
                       (~e.removed /\ vfiles[e.name] = vfiles0[e.name])
                 /\ ProbeFailed(e.probe) =>
                       /\ ~vfiles[e.name].present
                       /\ e.fault # "gone" => e.removed
        /\ valid_count = DecodesInLog
        /\ removed_count = RemovedInLog

\* C24: in the deep check a file whose probe exits with code zero stays and
\* is counted valid; a file whose probe exits non-zero or times out is removed
\* and counted as removed, unless os.remove fails: then the file is left as it
\* is (still there when the removal was refused, absent when it was already
\* gone) and is counted neither as valid nor as removed.
C24_ProbeDecidesRemovalUnlessRefused ==
    DeepRun =>
        /\ \A k \in 1..Len(v_log) :
              LET e == v_log[k]
              IN /\ ProbePassed(e.probe) =>
                       /\ e.verdict = "decodes"
                       /\ ~e.removed
                       /\ vfiles[e.name] = vfiles0[e.name]
                 /\ ProbeFailed(e.probe) =>
                       /\ e.verdict # "decodes"
                       /\ e.fault = "none" =>
                             (e.removed /\ ~vfiles[e.name].present)
                       /\ e.fault = "remove" =>
                             (~e.removed /\ vfiles[e.name] = vfiles0[e.name])
                       /\ e.fault = "gone" =>
                             (~e.removed /\ ~vfiles[e.name].present)
        /\ valid_count = DecodesInLog
        /\ removed_count = RemovedInLog

\* A finished deep run that kept one file and removed the other after a
\* timeout
C24_Witness ==
    /\ v_pc = "done"
    /\ DeepRun
    /\ Len(v_log) = 2
    /\ ProbePassed(v_log[1].probe)
    /\ v_log[2].probe.kind = "timeout"
    /\ v_log[2].removed
    /\ valid_count = 1
    /\ removed_count = 1

(***************************************************************************)
(* Strategy 3 of the JPEG ladder (SpecAsm)                                 *)
(***************************************************************************)
HasCall(tool) == \E k \in 1..Len(calls) : calls[k].tool = tool

\* The state right after strategy 3 of the JPEG ladder
AfterJp3 == kind = "jpeg" /\ last.k = 3

TestViable ==
    /\ last.test.o.kind = "exit"
    /\ last.test.o.rc = 0
    /\ last.test.file = "big"

\* C25: in strategy 3 of the JPEG ladder the mux over the full set, the only
\* run of the strategy that writes the output, directly follows a test mux
\* over copies of the first min(100, N) files that exited with code zero and
\* left a test output larger than 1024 bytes; when the test fails the full
\* mux is not invoked, the output is left as it was and the engine goes on to
\* strategy 4.
C25_FullMuxOnlyAfterViableTest ==
    /\ \A k \in 1..Len(calls) :
          calls[k].tool = "ffmpeg_full" =>
              /\ kind = "jpeg"
              /\ k > 1
              /\ calls[k - 1].tool = "ffmpeg_test"
              /\ \E j \in 1..Len(invoked) : invoked[j] = 3
    /\ AfterJp3 =>
          /\ last.test.staged <= 100
          /\ last.test.staged <= nseg
          /\ last.test.staged = 100 \/ last.test.staged = nseg
          /\ HasCall("ffmpeg_full") => TestViable
          /\ ~TestViable =>
                /\ ~HasCall("ffmpeg_full")
                /\ a_pc = "s4"
                /\ a_ret # "True"

\* The test passed on 100 of 150 files and the full mux made the output
C25_Witness ==
    /\ AfterJp3
    /\ nseg = 150
    /\ last.test.staged = 100
    /\ TestViable
    /\ HasCall("ffmpeg_full")
    /\ a_pc = "done"
    /\ a_ret = "True"

\* The test wrote a large file but exited non-zero: strategy 4 is next
C25_WitnessTestFailed ==
    /\ AfterJp3
    /\ last.test.o.rc = 1
    /\ last.test.file = "big"
    /\ HasCall("ffmpeg_test")
    /\ ~HasCall("ffmpeg_full")
    /\ a_pc = "s4"

(***************************************************************************)
(* Whose output a successful run reports (SpecAsm)                         *)
(***************************************************************************)
\* The run of the tool that ended the ladder wrote a viable output itself
WroteOutput == last.o.kind = "exit" /\ last.o.wrote = "big"

\* C26 as stated, in the case it names: when the engine reports success
\* through the maximum-tolerance strategy after a run of the tool that exited
\* non-zero, that run wrote the output: a file larger than 1024 bytes that was
\* already at the output path (from an earlier run of the engine or from an
\* earlier strategy of this run) does not make the strategy succeed.
C26_SuccessMeansWritten ==
    (DecidedSuccess /\ ToleratesExitCode(last.k) /\ last.o.rc # 0) =>
        WroteOutput

(***************************************************************************)
(* What a failed download leaves in its slot (Spec)                        *)
(***************************************************************************)
\* C27 as stated: a segment whose download failed in this run, for whatever
\* error, has no file in its slot, so that the next run requests it again
\* instead of skipping it.
C27_FailedDownloadLeavesNoFile ==
    pc \in {"fetch", "done"} =>
        \A k \in 0..(i - 1) :
            status[k + 1] = "Failed" => ~SlotExists(disk, k)

(***************************************************************************)
(* Strategy 6 of the transport-stream ladder (SpecAsm)                     *)
(***************************************************************************)
RawProbeRan == \E j \in 1..Len(invoked) : invoked[j] = 6

\* C28: the raw-stream probe never changes the result of
\* combine_mpegts_segments_to_mp4: once strategies 1 to 5 have all failed the
\* engine returns failure, also when the probe exits with code zero and
\* leaves a file larger than 1024 bytes, and the step of strategy 6 leaves
\* the file at the output path as it was.
C28_RawProbeNeverDecides ==
    /\ [](RawProbeRan =>
             /\ kind = "ts"
             /\ invoked = <<1, 2, 3, 4, 5, 6>>
             /\ a_pc = "done"
             /\ a_ret = "False")
    /\ [](DecidedSuccess => ~RawProbeRan)
    /\ [][a_pc = "s6" => (out' = out /\ a_ret' = "False")]_vars

\* The probe exited with code zero and left a large test_raw.mp4; the engine
\* returned failure
C28_Witness ==
    /\ RawProbeRan
    /\ last.k = 6
    /\ last.o.kind = "exit"
    /\ last.o.rc = 0
    /\ probe = "big"
    /\ a_pc = "done"
    /\ a_ret = "False"

(***************************************************************************)
(* The counts the validators return (SpecValidators)                       *)
(***************************************************************************)
Listed == {jpeg_files[k] : k \in 1..Len(jpeg_files)}

\* The listed files that are there, and those that are not, at this point
ListedPresent == Cardinality({n \in Listed : vfiles[n].present})
ListedAbsent == Cardinality({n \in Listed : ~vfiles[n].present})

\* The log entries of the files that passed
PassedInLog ==
    Cardinality({k \in 1..Len(v_log) : v_log[k].verdict \in {"valid", "decodes"}})

\* The log entries of the files that did not pass and that os.remove did not
\* remove: it raised because the removal was refused or the file was gone
UnremovedInLog ==
    Cardinality({k \in 1..Len(v_log) : v_log[k].fault \in {"remove", "gone"}})

\* The log entries of the files that were gone when the validator came to
\* remove them
GoneInLog == Cardinality({k \in 1..Len(v_log) : v_log[k].fault = "gone"})

RefusedInLog == Cardinality({k \in 1..Len(v_log) : v_log[k].fault = "remove"})

\* C29 as stated: when a validator returns, validCount + removedCount is the
\* number of files listed at the start, removedCount is the number of listed
\* files that are deleted, and validCount is the number of listed files still
\* present.
C29_CountsPartitionListed ==
    v_pc = "done" =>
        /\ valid_count + removed_count = Len(jpeg_files)
        /\ removed_count = ListedAbsent
        /\ valid_count = ListedPresent

\* C29: when a validator returns, the counts partition the listed files
\* that passed or were removed by it: validCount + removedCount is the number
\* of files listed at the start less the files that did not pass and that
\* os.remove failed to remove (refused, or already gone); removedCount is the
\* number of files the validator deleted; validCount is the number of files
\* that passed, which are the listed files still present except those whose
\* removal was refused.
C29_CountsPartitionUnlessRemoveFails ==
    /\ v_pc \in {"loop", "probe", "done"} =>
          /\ valid_count + removed_count + UnremovedInLog = Len(v_log)
          /\ removed_count = RemovedInLog
          /\ valid_count = PassedInLog
    /\ v_pc = "done" =>
          /\ Len(v_log) = Len(jpeg_files)
          /\ removed_count = ListedAbsent - GoneInLog
          /\ valid_count = ListedPresent - RefusedInLog

\* A finished run over two listed files: one passed, one was removed
C29_Witness ==
    /\ v_pc = "done"
    /\ Len(jpeg_files) = 2
    /\ valid_count = 1
    /\ removed_count = 1
    /\ ListedPresent = 1
    /\ ListedAbsent = 1
    /\ UnremovedInLog = 0

\* A finished run that could not remove a file that did not pass: the file
\* is in neither count
C29_WitnessRefused ==
    /\ v_pc = "done"
    /\ Len(jpeg_files) = 2
    /\ RefusedInLog = 1
    /\ valid_count = 1
    /\ removed_count = 0
    /\ ListedPresent = 2

Force1 ==
    /\ kind = "force"
    /\ a_pc = "s1"
    /\ \E o \in Unbounded :
         LET f == IF o.kind = "raise_prep" THEN out ELSE FileAfter(out, o)
             ok == TolerantSuccess(o, f)
         IN /\ out' = f
            /\ calls' = IF o.kind = "raise_prep" THEN calls
                        ELSE Call(calls, "ffmpeg_force", 0)
            /\ last' = [k |-> 1, o |-> o, out |-> f]
            /\ a_ret' = IF ok THEN "True" ELSE "False"
    /\ invoked' = Append(invoked, 1)
    /\ a_pc' = "done"
    /\ UNCHANGED <<tmp, probe>>
    /\ UNCHANGED asmInputs
    /\ UNCHANGED notAsm

\* The three engines, each before its call
InitEngines ==
    /\ kind \in {"ts", "jpeg", "force"}
    /\ ffmpeg_ok \in BOOLEAN
    /\ nseg \in SegCounts
    /\ a_pc = "check"
    /\ out \in {"absent", "small", "big"}
    /\ tmp = {}
    /\ probe = "absent"
    /\ invoked = <<>>
    /\ calls = <<>>
    /\ last = NoOutcome
    /\ a_ret = "none"
    /\ DlIdle
    /\ NameIdle
    /\ ValIdle
    /\ MainIdle

NextEngines == NextAsm \/ Force1

SpecEngines == InitEngines /\ [][NextEngines]_vars

(***************************************************************************)
(* The two tests before the first strategy (SpecEngines)                   *)
(***************************************************************************)
\* The tool is unavailable or no file matches the pattern
NothingToRun == ~ffmpeg_ok \/ nseg = 0

\* C31: when "ffmpeg -version" fails or the listing is empty, each of the
\* three engines returns failure from its tests: no strategy is invoked, no
\* run of the tool is made, no temporary file is written and the file at the
\* output path is left as it was.
C31_NothingToRunMeansFailure ==
    /\ [](NothingToRun =>
             /\ a_pc \in {"check", "done"}
             /\ invoked = <<>>
             /\ calls = <<>>
             /\ tmp = {}
             /\ probe = "absent"
             /\ a_pc = "done" => a_ret = "False")
    /\ [][(a_pc = "check" /\ NothingToRun) =>
             /\ a_pc' = "done"
             /\ a_ret' = "False"
             /\ out' = out]_vars

\* force_combine_jpegs_to_mp4 has returned False over a directory without a
\* video*.jpeg file, the tool being there
C31_Witness ==
    /\ kind = "force"
    /\ ffmpeg_ok
    /\ nseg = 0
    /\ a_pc = "done"
    /\ a_ret = "False"
    /\ invoked = <<>>

\* combine_mpegts_segments_to_mp4 has returned False without ffmpeg, over a
\* directory with 150 segments
C31_WitnessNoTool ==
    /\ kind = "ts"
    /\ ~ffmpeg_ok
    /\ nseg = 150
    /\ a_pc = "done"
    /\ a_ret = "False"
    /\ calls = <<>>

(***************************************************************************)
(* The JPEG-only downloaders: download_jpeg_segments                       *)
(* (dowlnload_mp4_from_jpeg_based_m3u8.py, lines 8-77) and main of         *)
(* dowlnload_jpeg_contains_m3u8.py (lines 76-114).  Their start and their  *)
(* fetch loop are those of download_segments_from_m3u8, over               *)
(* video%04d.jpeg; their parser is another one.                            *)
(***************************************************************************)
\* lines 31-36 (85-92 in main): the entries after one raw line.  A line that
\* ends with ".jpeg" is kept as it is when it starts with http:// or
\* https://, and otherwise appended to base_url, a string that may be empty
JpegParseOne(urls, raw, base) ==
    LET line == Strip(raw) IN
    IF ~EndsWith(line, P_jpeg) THEN urls
    ELSE IF IsAbsolute(line) THEN Append(urls, line)
    ELSE Append(urls, base[1] \o line)

\* base_url as main passes it (lines 147-149): "" or a string ending in "/"
B_clipsSlash == B_clips \o <<"/">>

JpegBases == {Some(B_empty), Some(B_clipsSlash)}

\* lines 30-36: one line of the manifest
JpegParseLine ==
    /\ UNCHANGED notDl
    /\ pc = "parse"
    /\ li < Len(lines)
    /\ segment_urls' = JpegParseOne(segment_urls, lines[li + 1], base_url)
    /\ li' = li + 1
    /\ UNCHANGED <<m3u8_exists, lines, base_url, pc, warnings, i,
                   download_errors, skipped_files, downloaded, requests,
                   status, disk, outdir, ret, runs, disk0>>

NextJpegDl ==
    \/ StartMissing \/ StartRead \/ JpegParseLine \/ ParseDone
    \/ FetchSkip \/ FetchOk \/ FetchRequestError \/ FetchOpenError
    \/ FetchStreamError \/ FetchDone \/ Rerun

InitJpegDl ==
    DlInit(FetchLines, JpegBases, MaxSegs) /\ AsmIdle /\ NameIdle /\ ValIdle
    /\ MainIdle

SpecJpegDl == InitJpegDl /\ [][NextJpegDl]_vars

\* C32 as stated: in the JPEG-only downloaders a relative line read while the
\* base URL is empty produces no entry, and no GET is made for it: every
\* entry and every requested URL is an absolute one.
C32_RelativeWithoutBaseDropped ==
    (pc \in {"parse", "fetch", "done"} /\ ~HasBase(base_url)) =>
        /\ \A k \in 1..Len(segment_urls) : IsAbsolute(segment_urls[k])
        /\ \A r \in 1..Len(requests) : IsAbsolute(requests[r].url)

(***************************************************************************)
(* main of dowlnload_jpeg_contains_m3u8.py, lines 57-121: the manifest is  *)
(* read and fetched inside main, then, with --combine-video, the script's  *)
(* own combine_jpegs_to_mp4 (lines 8-55) is called.  no_combine stands for *)
(* the absence of --combine-video.                                         *)
(***************************************************************************)
InitJpegMain ==
    /\ m3u8_exists \in BOOLEAN
    /\ m3u8_readable \in BOOLEAN
    /\ m3u8_readable => m3u8_exists
    /\ lines \in MainManifests
    /\ base_url = Some(B_clipsSlash)
    /\ pc = "start"
    /\ li = 0
    /\ segment_urls = <<>>
    /\ warnings = <<>>
    /\ i = 0
    /\ download_errors = 0
    /\ skipped_files = 0
    /\ downloaded = 0
    /\ requests = <<>>
    /\ status = <<>>
    /\ disk = [s \in Slots |-> "absent"]
    /\ disk0 = disk
    /\ outdir = FALSE
    /\ ret = "none"
    /\ runs = 1
    /\ kind = "simple"
    /\ ffmpeg_ok \in BOOLEAN
    /\ nseg = 0
    /\ a_pc = "idle"
    /\ out \in {"absent", "big"}
    /\ tmp = {}
    /\ probe = "absent"
    /\ invoked = <<>>
    /\ calls = <<>>
    /\ last = NoOutcome
    /\ a_ret = "none"
    /\ NameIdle
    /\ ValIdle
    /\ no_combine \in BOOLEAN
    /\ m_pc = "download"
    /\ exit_code = -1

\* lines 76-78: the manifest is missing, sys.exit(1)
JmExitMissing ==
    /\ m_pc = "download"
    /\ pc = "done"
    /\ ret = "False"
    /\ exit_code' = 1
    /\ m_pc' = "exited"
    /\ UNCHANGED <<dlVars, asmVars, nameVars, valVars, mainFrame>>

\* line 117 without --combine-video: main ends
JmNoCombine ==
    /\ m_pc = "download"
    /\ pc = "done"
    /\ ret = "True"
    /\ no_combine
    /\ exit_code' = 0
    /\ m_pc' = "exited"
    /\ UNCHANGED <<dlVars, asmVars, nameVars, valVars, mainFrame>>

\* lines 117-118: combine_jpegs_to_mp4 is called on the output directory
JmCombineCall ==
    /\ m_pc = "download"
    /\ pc = "done"
    /\ ret = "True"
    /\ ~no_combine
    /\ m_pc' = "combine"
    /\ nseg' = Cardinality({sl \in Slots : disk[sl] # "absent"})
    /\ a_pc' = "check"
    /\ UNCHANGED <<kind, ffmpeg_ok, out, tmp, probe, invoked, calls, last,
                   a_ret>>
    /\ UNCHANGED <<dlVars, nameVars, valVars, mainFrame, exit_code>>

\* lines 37-55: one run of the tool with check=True and no timeout; exit code
\* zero means True, CalledProcessError means False
Simple1 ==
    /\ kind = "simple"
    /\ a_pc = "s1"
    /\ \E o \in Exits :
         LET f == FileAfter(out, o)
         IN /\ out' = f
            /\ last' = [k |-> 1, o |-> o, out |-> f]
            /\ a_ret' = IF o.rc = 0 THEN "True" ELSE "False"
    /\ calls' = Call(calls, "ffmpeg_image2", 0)
    /\ invoked' = Append(invoked, 1)
    /\ a_pc' = "done"
    /\ UNCHANGED <<tmp, probe>>
    /\ UNCHANGED asmInputs
    /\ UNCHANGED notAsm

\* line 118: the value combine_jpegs_to_mp4 returns is not used; main ends
JpegMainExitStatus(success) == 0

\* lines 118-121: combine_jpegs_to_mp4 has returned
JmCombineReturn ==
    /\ m_pc = "combine"
    /\ a_pc = "done"
    /\ exit_code' = JpegMainExitStatus(a_ret)
    /\ m_pc' = "exited"
    /\ UNCHANGED <<dlVars, asmVars, nameVars, valVars, mainFrame>>

NextJpegMain ==
    \/ StartMissing \/ StartUnreadable \/ StartRead \/ JpegParseLine
    \/ ParseDone
    \/ FetchOk \/ FetchRequestError \/ FetchOpenError \/ FetchStreamError
    \/ FetchDone
    \/ MainUncaught \/ JmExitMissing \/ JmNoCombine \/ JmCombineCall
    \/ AsmNoFfmpeg \/ AsmNoSegments \/ AsmBegin \/ Simple1
    \/ JmCombineReturn

SpecJpegMain == InitJpegMain /\ [][NextJpegMain]_vars

\* C33 as stated: when main of dowlnload_jpeg_contains_m3u8.py was run with
\* --combine-video and combine_jpegs_to_mp4 has failed, the process ends with
\* a non-zero exit status.
C33_CombineFailureExitsNonZero ==
    (m_pc = "exited" /\ CombineFailed) => exit_code # 0

====
